---- MODULE Spec2Model ----
(***************************************************************************)
(* Model of the locutus reminder scheduler: the schedule store             *)
(* (src/web_db.py), the web handlers that author it (src/web_app.py), the  *)
(* polling loop that fires and re-arms schedules (src/web_scheduler.py)    *)
(* and the template renderer (src/template_utils.py).                      *)
(*                                                                         *)
(* Time is counted in minutes since Monday 2024-03-04 00:00 UTC.  A local  *)
(* wall-clock value is counted in minutes since Monday 2024-03-04 00:00 of *)
(* the zone.  time_local is kept as the pair <<hour, minute>> that         *)
(* map(int, time_local.split(":")) yields.                                  *)
(***************************************************************************)
EXTENDS Integers, Sequences, FiniteSets, TLC

VARIABLES
    now,           \* the wall clock, UTC minutes
    schedules,     \* table schedule: id -> row
    templates,     \* table template: id -> row
    guild_config,  \* table guild_config: guild_id -> row
    botGuilds,     \* guilds bot.get_guild resolves
    guildChannels, \* guild -> channel ids guild.get_channel resolves
    tzdb,          \* zone keys ZoneInfo can load
    pc,            \* position of scheduler_loop: "unstarted", "wait", "poll" (top of
                   \* the while loop), "dispatch", "done", or "stopped" (the process
                   \* ended inside a batch)
    now_utc,       \* process_due_schedules: the instant read at the poll
    batch,         \* process_due_schedules: ids of the due rows not yet handled
    tickBatch,     \* history: the ids the poll of this tick selected
    tickLog,       \* history: what this tick did with each schedule, in order
    failStreak,    \* history: the row whose last pass ended in a failed send, and how
                   \* many passes of it in a row did
    ticks,         \* history: number of polls so far
    running,       \* WebScheduler.running
    ready,         \* the bot has become ready (wait_until_ready returns)
    closed,        \* bot.is_closed()
    ensuring,      \* guild -> number of ensure_guild_has_templates calls that found
                   \* no template of the guild and have not committed yet
    session,       \* session_data of the signed-in user: cached_guilds and
                   \* guild_cache_timestamp, each absent (<<>>) or present (<<value>>)
    webClock,      \* datetime.now(timezone.utc).timestamp(), seconds
    lastCall,      \* history: the last call of get_manageable_guilds_with_cache
    second,        \* the scheduler_loop task of a start() called while a loop task
                   \* is alive: its position, the rows its poll loaded and what it
                   \* did with them
    reply          \* history: the last delete request and the answer it got

vars == <<now, schedules, templates, guild_config, botGuilds, guildChannels,
          tzdb, pc, now_utc, batch, tickBatch, tickLog, failStreak, ticks,
          running, ready, closed, ensuring, session, webClock, lastCall, second,
          reply>>

(***************************************************************************)
(* Bounds of the model                                                     *)
(***************************************************************************)
MaxSchedules == 2
MaxTemplates == 2
MaxTicks == 3
\* the clock stops at this instant (minutes): eight days
Horizon == 11520

(***************************************************************************)
(* Program constants                                                       *)
(***************************************************************************)
DaysAhead == 7
PollSeconds == 60

MinutesPerDay == 24 * 60
PollMinutes == PollSeconds \div 60
\* how long a slow pass of the dispatch takes: longer than the poll interval
SlowMinutes == PollMinutes + 1

None == "None"

Guilds == {"g1"}
Channels == {"111"}
\* channel_id values a form can carry: empty, a channel id, a non-numeric text
FormChannels == {"", "111", "general"}
Zones == {"UTC", "America/New_York"}
RoleIds == {None, "987"}
Digits == {"111", "222", "987"}

\* The recurrence rules the requests of the model carry:
\* weekday, time_local as <<hour, minute>>, advance_minutes.
Rules ==
    { [weekday |-> 0, time_local |-> <<0, 10>>, advance_minutes |-> 30],
      [weekday |-> 0, time_local |-> <<14, 30>>, advance_minutes |-> 0] }

\* The forms the guild configuration requests of the model carry.
ConfigForms ==
    { [timezone |-> "UTC", role_id |-> "", default_channel_id |-> ""],
      [timezone |-> "America/New_York", role_id |-> "987", default_channel_id |-> "111"] }

StartInstant == 12 * 60

(***************************************************************************)
(* The tz database as zoneinfo reads it, for the two zones of the model:   *)
(* the standard offset, the offset after the spring-forward transition and *)
(* the UTC instant of that transition (New York: 2024-03-10 07:00 UTC).    *)
(***************************************************************************)
ZoneStd(z) == IF z = "America/New_York" THEN 0 - 300 ELSE 0
ZoneDst(z) == IF z = "America/New_York" THEN 0 - 240 ELSE 0
ZoneTransition(z) == IF z = "America/New_York" THEN 6 * MinutesPerDay + 7 * 60 ELSE 0

\* datetime.now(zone): the wall-clock reading of the UTC instant t in zone z
NowIn(z, t) == t + (IF t >= ZoneTransition(z) THEN ZoneDst(z) ELSE ZoneStd(z))

\* next_run.astimezone(ZoneInfo("UTC")): the UTC instant of the wall-clock
\* value w of zone z, with fold = 0 (a value inside the skipped hour takes the
\* offset in force before the transition)
AsUTC(z, w) == w - (IF w < ZoneTransition(z) + ZoneDst(z) THEN ZoneStd(z) ELSE ZoneDst(z))

DateOf(w) == w \div MinutesPerDay
TimeOfDay(w) == w % MinutesPerDay
WeekdayOf(w) == DateOf(w) % 7

\* now.replace(hour=hour, minute=minute, second=0, microsecond=0)
ReplaceTime(w, hm) == DateOf(w) * MinutesPerDay + hm[1] * 60 + hm[2]

\* create_schedule: days from the reference's local date to the first occurrence
\* Faulty variant: a reference exactly at the target time counts as not yet
\* passed.
FirstDaysAheadTieToday(weekday, hm, w) ==
    LET d == weekday - WeekdayOf(w)
    IN  IF d < 0 THEN d + 7
        ELSE IF d = 0 /\ w > ReplaceTime(w, hm) THEN 7
        ELSE d

FirstDaysAhead(weekday, hm, w) ==
    LET d == weekday - WeekdayOf(w) IN
    IF d < 0 THEN d + 7
    ELSE IF d = 0 /\ w >= ReplaceTime(w, hm) THEN 7
    ELSE d

\* create_schedule: the first next_run_utc of a rule, reference instant t
\* Faulty variants.  NoAdvance: advance_minutes is not subtracted.
\* FixedOffset: the local result is converted with the UTC offset in force at
\* the reference instant.
FirstNextRunNoAdvance(z, weekday, hm, adv, t) ==
    LET w == NowIn(z, t)
        next_run == ReplaceTime(w, hm) + FirstDaysAhead(weekday, hm, w) * MinutesPerDay
    IN  AsUTC(z, next_run)

FirstNextRunFixedOffset(z, weekday, hm, adv, t) ==
    LET w == NowIn(z, t)
        next_run == ReplaceTime(w, hm) + FirstDaysAhead(weekday, hm, w) * MinutesPerDay
    IN  (next_run - adv) - (w - t)

\* SkipPast: a fire time that is already past is moved on by a week.
FirstNextRunSkipPast(z, weekday, hm, adv, t) ==
    LET w == NowIn(z, t)
        next_run == ReplaceTime(w, hm) + FirstDaysAhead(weekday, hm, w) * MinutesPerDay
    IN  IF AsUTC(z, next_run - adv) < t
        THEN AsUTC(z, next_run + DaysAhead * MinutesPerDay - adv)
        ELSE AsUTC(z, next_run - adv)

FirstNextRun(z, weekday, hm, adv, t) ==
    LET w == NowIn(z, t)
        next_run == ReplaceTime(w, hm) + FirstDaysAhead(weekday, hm, w) * MinutesPerDay
    IN  AsUTC(z, next_run - adv)

\* update_next_run: the next_run_utc after a fire, reference instant t
\* Faulty variant: the local result converted with the UTC offset in force at
\* the reference instant instead of the offset in force at the result.
NextRunAfterFireFixedOffset(z, hm, adv, t) ==
    LET w == NowIn(z, t)
        next_run == ReplaceTime(w, hm) + DaysAhead * MinutesPerDay
    IN  (next_run - adv) - (w - t)

NextRunAfterFire(z, hm, adv, t) ==
    LET w == NowIn(z, t)
        next_run == ReplaceTime(w, hm) + DaysAhead * MinutesPerDay
    IN  AsUTC(z, next_run - adv)

(***************************************************************************)
(* render_template.  A text is a sequence of pieces of a string.  The      *)
(* placeholders are spelled in two pieces each, "{role_" "id}" and         *)
(* "{system_" "name}", so that a text can hold a placeholder split around  *)
(* other text, as the string "{role_{role_id}id}" does; "<@&" and ">" are  *)
(* the mention wrapper, the rest are plain words.  Replace is str.replace: *)
(* one pass, left to right, non-overlapping.                               *)
(***************************************************************************)
RoleToken == <<"{role_", "id}">>
SystemToken == <<"{system_", "name}">>
Wrapper == <<"<@&">> \o RoleToken \o <<">">>

RECURSIVE Replace(_, _, _)
Replace(text, old, new) ==
    IF Len(text) < Len(old) THEN text
    ELSE IF SubSeq(text, 1, Len(old)) = old
         THEN new \o Replace(SubSeq(text, Len(old) + 1, Len(text)), old, new)
         ELSE <<Head(text)>> \o Replace(Tail(text), old, new)

IsDigit(str) == str \in Digits

\* Faulty variant: with no role only the inner placeholder is removed
render_templateKeepWrapper(content, system_name, role_id) ==
    LET rendered == Replace(content, SystemToken, system_name) IN
    IF role_id # None /\ role_id # ""
    THEN IF ~IsDigit(role_id)
         THEN Replace(rendered, RoleToken, <<"INVALID_ROLE_ID">>)
         ELSE Replace(rendered, RoleToken, <<role_id>>)
    ELSE Replace(rendered, RoleToken, <<>>)

\* Faulty variant: the role id is inserted without the isdigit test
render_templateUnvalidated(content, system_name, role_id) ==
    LET rendered == Replace(content, SystemToken, system_name) IN
    IF role_id # None /\ role_id # ""
    THEN Replace(rendered, RoleToken, <<role_id>>)
    ELSE Replace(Replace(rendered, Wrapper, <<>>), RoleToken, <<>>)

\* Faulty variant: the role is substituted before the system name
render_templateRoleFirst(content, system_name, role_id) ==
    LET rendered ==
            IF role_id # None /\ role_id # ""
            THEN IF ~IsDigit(role_id)
                 THEN Replace(content, RoleToken, <<"INVALID_ROLE_ID">>)
                 ELSE Replace(content, RoleToken, <<role_id>>)
            ELSE Replace(Replace(content, Wrapper, <<>>), RoleToken, <<>>)
    IN  Replace(rendered, SystemToken, system_name)

render_template(content, system_name, role_id) ==
    LET rendered == Replace(content, SystemToken, system_name) IN
    IF role_id # None /\ role_id # ""
    THEN IF ~IsDigit(role_id)
         THEN Replace(rendered, RoleToken, <<"INVALID_ROLE_ID">>)
         ELSE Replace(rendered, RoleToken, <<role_id>>)
    ELSE Replace(Replace(rendered, Wrapper, <<>>), RoleToken, <<>>)

PresetContent == <<"Defense", "in">> \o SystemToken \o Wrapper
SystemNames == {<<"Sol">>}

(***************************************************************************)
(* Tables                                                                  *)
(***************************************************************************)
Ids(table) == DOMAIN table

\* SQLite INTEGER PRIMARY KEY: one more than the largest id in use
NextId(table) ==
    IF Ids(table) = {} THEN 1
    ELSE 1 + CHOOSE m \in Ids(table) : \A i \in Ids(table) : i <= m

Insert(table, id, row) == [i \in Ids(table) \cup {id} |-> IF i = id THEN row ELSE table[i]]
Delete(table, id) == [i \in Ids(table) \ {id} |-> table[i]]

Range(seq) == {seq[i] : i \in DOMAIN seq}

(***************************************************************************)
(* process_due_schedules: the due query                                    *)
(***************************************************************************)
\* Faulty variant: a schedule due exactly now is left for the next poll.
IsDueStrict(row, t) == row.enabled /\ row.next_run_utc < t

IsDue(row, t) == row.enabled /\ row.next_run_utc <= t

\* Faulty variant: the due query without its "enabled == True" condition.
DueIdsAnyRow(t) == {id \in Ids(schedules) : schedules[id].next_run_utc <= t}

DueIds(t) == {id \in Ids(schedules) : IsDue(schedules[id], t)}

\* Faulty variant: the due query without its order_by
IsDueOrderUnsorted(seq, t) ==
    /\ Len(seq) = Cardinality(DueIds(t))
    /\ Range(seq) = DueIds(t)

\* the orders the query can return the due rows in: ascending next_run_utc
IsDueOrder(seq, t) ==
    /\ Len(seq) = Cardinality(DueIds(t))
    /\ Range(seq) = DueIds(t)
    /\ \A i, j \in DOMAIN seq :
          i < j => schedules[seq[i]].next_run_utc <= schedules[seq[j]].next_run_utc

DueOrders(t) ==
    {seq \in UNION {[1..n -> DueIds(t)] : n \in {Cardinality(DueIds(t))}} : IsDueOrder(seq, t)}

(***************************************************************************)
(* post_reminder on row s; ok tells whether channel.send returns.          *)
(* The result says whether the row was disabled, whether channel.send was  *)
(* called, the text sent, and whether the call raised.                     *)
(***************************************************************************)
PostResult(cause, disable, sent, raised, message) ==
    [cause |-> cause, disable |-> disable, sent |-> sent, raised |-> raised,
     message |-> message]

post_reminder(s, ok) ==
    IF s.guild_id \notin botGuilds
    THEN PostResult("guild", TRUE, FALSE, FALSE, <<>>)
    ELSE IF s.channel_id = None \/ s.channel_id = ""
    THEN PostResult("no_channel", TRUE, FALSE, FALSE, <<>>)
    ELSE IF ~IsDigit(s.channel_id)
    THEN PostResult("channel_id_not_int", FALSE, FALSE, TRUE, <<>>)
    ELSE IF s.channel_id \notin guildChannels[s.guild_id]
    THEN PostResult("channel", TRUE, FALSE, FALSE, <<>>)
    ELSE IF s.template_id \notin Ids(templates)
    THEN PostResult("template", TRUE, FALSE, FALSE, <<>>)
    ELSE LET role_id == IF s.guild_id \in DOMAIN guild_config
                        THEN guild_config[s.guild_id].role_id ELSE None
             message_content ==
                 render_template(templates[s.template_id].content, s.system_name, role_id)
         IN  IF ok THEN PostResult("none", FALSE, TRUE, FALSE, message_content)
             ELSE PostResult("send", FALSE, TRUE, TRUE, message_content)

(***************************************************************************)
(* update_next_run on row s at instant t: the row it commits, and whether  *)
(* it raised (ZoneInfo does not know the zone, or time_local is not        *)
(* "HH:MM") and committed nothing.                                         *)
(***************************************************************************)
\* hour, minute = map(int, schedule.time_local.split(':'))
WellFormed(hm) == Len(hm) = 2

\* a time_local that does not parse, such as "7pm"
Malformed == <<>>

update_next_run(s, t) ==
    IF s.timezone \notin tzdb \/ ~WellFormed(s.time_local)
    THEN [raised |-> TRUE, row |-> s]
    ELSE [raised |-> FALSE,
          row |-> [s EXCEPT !.next_run_utc =
                      NextRunAfterFire(s.timezone, s.time_local, s.advance_minutes, t)]]

(***************************************************************************)
(* Faulty variants of the pass below, used to show that the properties     *)
(* depend on it.  SendSwallowed: post_reminder catches what channel.send   *)
(* raises, so update_next_run runs after a failed send.  Unguarded: no     *)
(* try around the pass, so what it raises ends the for loop.               *)
(***************************************************************************)
ProcessScheduleSendSwallowed(s, ok, t) ==
    LET post == post_reminder(s, ok)
        posted == IF post.disable THEN [s EXCEPT !.enabled = FALSE] ELSE s
        upd == update_next_run(posted, t)
    IN  [post |-> post, row |-> upd.row, raised |-> upd.raised, escaped |-> FALSE]

ProcessScheduleUnguarded(s, ok, t) ==
    LET post == post_reminder(s, ok)
        posted == IF post.disable THEN [s EXCEPT !.enabled = FALSE] ELSE s
        upd == IF post.raised THEN [raised |-> TRUE, row |-> posted]
               ELSE update_next_run(posted, t)
    IN  [post |-> post, row |-> upd.row, raised |-> upd.raised, escaped |-> upd.raised]

(***************************************************************************)
(* One pass of the for loop of process_due_schedules over row s: the try   *)
(* block calls post_reminder and then, when that returned, update_next_run *)
(* ; the except clause logs whatever either raised.                        *)
(***************************************************************************)
ProcessSchedule(s, ok, t) ==
    LET post == post_reminder(s, ok)
        posted == IF post.disable THEN [s EXCEPT !.enabled = FALSE] ELSE s
        upd == IF post.raised THEN [raised |-> TRUE, row |-> posted]
               ELSE update_next_run(posted, t)
    IN  [post |-> post, row |-> upd.row, raised |-> upd.raised, escaped |-> FALSE]

(***************************************************************************)
(* Initial state: guild g1 has been set up through the web UI (its         *)
(* GuildConfig row written by update_guild_config, one template created),  *)
(* the bot is ready and in the guild, the loop is about to poll.           *)
(***************************************************************************)
NoRows == [i \in {} |-> 0]
NoStreak == [id |-> 0, count |-> 0]

\* form_data.get(key) or None
OrNone(v) == IF v = "" THEN None ELSE v

ConfigRow(timezone, role_id, default_channel_id) ==
    [timezone |-> timezone, role_id |-> OrNone(role_id),
     default_channel_id |-> OrNone(default_channel_id)]

TemplateRow(guild_id, content, is_default) ==
    [guild_id |-> guild_id, content |-> content, is_default |-> is_default]

\* an optional value: absent, or present
Absent == <<>>
Some(v) == <<v>>

\* the session oauth_callback creates: no guild cache
FreshSession == [cached_guilds |-> Absent, guild_cache_timestamp |-> Absent]

NoCall ==
    [called |-> FALSE, use_cache |-> FALSE, filter_by_bot |-> FALSE, pre |-> FreshSession,
     at |-> 0, bot |-> {}, fetched |-> FALSE, requests |-> <<>>, fetched_guilds |-> <<>>,
     result |-> <<>>]

\* start() has not been called while a loop task was alive
NoTask == [pc |-> "none", batch |-> <<>>, log |-> <<>>, polls |-> 0, wake |-> 0]

\* no delete request has been made
NoReply == [handler |-> "none", guild_id |-> "", schedule_id |-> 0, existed |-> FALSE,
            status |-> ""]

\* no web request is in flight, the user has just signed in
InitWeb ==
    /\ ensuring = [g \in Guilds |-> 0]
    /\ session = FreshSession
    /\ webClock = 0
    /\ lastCall = NoCall

InitWith(forms) ==
    /\ now = StartInstant
    /\ schedules = NoRows
    /\ templates = Insert(NoRows, 1, TemplateRow("g1", PresetContent, TRUE))
    /\ \E f \in forms :
          guild_config =
             Insert(NoRows, "g1", ConfigRow(f.timezone, f.role_id, f.default_channel_id))
    /\ botGuilds = Guilds
    /\ guildChannels = [g \in Guilds |-> Channels]
    /\ tzdb = Zones
    /\ pc = "poll"
    /\ now_utc = StartInstant
    /\ batch = <<>>
    /\ tickBatch = <<>>
    /\ tickLog = <<>>
    /\ failStreak = NoStreak
    /\ ticks = 0
    /\ running = TRUE
    /\ ready = TRUE
    /\ closed = FALSE
    /\ second = NoTask
    /\ reply = NoReply
    /\ InitWeb

Init == InitWith(ConfigForms)

storeVars == <<schedules, templates, guild_config>>
botVars == <<botGuilds, guildChannels, tzdb>>
loopVars == <<pc, now_utc, batch, tickBatch, tickLog, ticks>>
lifeVars == <<running, ready, closed>>
guildVars == <<session, webClock, lastCall>>
webVars == <<ensuring, guildVars>>

(***************************************************************************)
(* Web handlers (src/web_app.py)                                           *)
(***************************************************************************)
update_guild_config(guild_id, timezone, role_id, default_channel_id) ==
    /\ guild_config' =
          Insert(guild_config, guild_id, ConfigRow(timezone, role_id, default_channel_id))
    /\ UNCHANGED <<lifeVars, webVars, second, reply, now, schedules, templates, botVars, loopVars, failStreak>>

create_template(guild_id, content, is_default) ==
    /\ NextId(templates) <= MaxTemplates
    /\ LET unset == [i \in Ids(templates) |->
                        IF is_default /\ templates[i].guild_id = guild_id
                        THEN [templates[i] EXCEPT !.is_default = FALSE]
                        ELSE templates[i]]
       IN  templates' =
              Insert(unset, NextId(templates), TemplateRow(guild_id, content, is_default))
    /\ UNCHANGED <<lifeVars, webVars, second, reply, now, schedules, guild_config, botVars, loopVars, failStreak>>

\* load_preset_templates: "English Default" and "German Default", in this order
PresetTemplates == <<PresetContent, PresetContent>>

\* how many requests for one guild's page the model lets be in flight at once
MaxRequests == 2

TemplatesOf(guild_id) == {i \in Ids(templates) : templates[i].guild_id = guild_id}

RECURSIVE InsertPresets(_, _, _)
InsertPresets(table, guild_id, k) ==
    IF k > Len(PresetTemplates) THEN table
    ELSE InsertPresets(Insert(table, NextId(table),
                              TemplateRow(guild_id, PresetTemplates[k], k = 1)),
                       guild_id, k + 1)

\* ensure_guild_has_templates up to its await of the select: the guild has no
\* template, so the call goes on (with a template it returns and changes nothing)
EnsureSelect(guild_id) ==
    /\ TemplatesOf(guild_id) = {}
    /\ ensuring[guild_id] < MaxRequests
    /\ ensuring' = [ensuring EXCEPT ![guild_id] = @ + 1]
    /\ UNCHANGED <<lifeVars, guildVars, second, reply, now, storeVars, botVars, loopVars, failStreak>>

\* ensure_guild_has_templates from the select to its commit: the presets are
\* added, the first of them as the default
EnsureCommit(guild_id) ==
    /\ ensuring[guild_id] > 0
    /\ Cardinality(Ids(templates)) + Len(PresetTemplates) <= MaxRequests * MaxTemplates
    /\ templates' = InsertPresets(templates, guild_id, 1)
    /\ ensuring' = [ensuring EXCEPT ![guild_id] = @ - 1]
    /\ UNCHANGED <<lifeVars, guildVars, second, reply, now, schedules, guild_config, botVars, loopVars, failStreak>>

create_schedule(guild_id, template_id, system_name, rule, channel_id) ==
    /\ NextId(schedules) <= MaxSchedules
    /\ guild_id \in DOMAIN guild_config
    /\ guild_config[guild_id].timezone \in tzdb
    /\ LET cfg == guild_config[guild_id]
           chan == IF channel_id = "" THEN cfg.default_channel_id ELSE channel_id
       IN  schedules' =
              Insert(schedules, NextId(schedules),
                     [guild_id |-> guild_id,
                      template_id |-> template_id,
                      system_name |-> system_name,
                      weekday |-> rule.weekday,
                      time_local |-> rule.time_local,
                      timezone |-> cfg.timezone,
                      channel_id |-> chan,
                      enabled |-> TRUE,
                      next_run_utc |-> FirstNextRun(cfg.timezone, rule.weekday,
                                                    rule.time_local, rule.advance_minutes, now),
                      advance_minutes |-> rule.advance_minutes])
    /\ UNCHANGED <<lifeVars, webVars, second, reply, now, templates, guild_config, botVars, loopVars, failStreak>>

(***************************************************************************)
(* The user's guilds (src/web_app.py).  A guild of Discord's answer is its *)
(* id and its permissions; an answer is its status code, whether its body  *)
(* parses as JSON with a usable retry_after (a 429 of the gateway in front *)
(* of the API carries no JSON), and, for a 200, the guild list.            *)
(***************************************************************************)
GUILD_CACHE_TTL == 30
MANAGE_GUILD == 32

\* retry_after of a 429 body, seconds
RetryAfter == 1

UserGuild(id, permissions) == [id |-> id, permissions |-> permissions]
Owned == UserGuild("g1", MANAGE_GUILD)
Member == UserGuild("g2", 8)
Managed == UserGuild("g3", MANAGE_GUILD + 8)

GuildLists == {<<>>, <<Owned, Member>>, <<Member, Managed>>}

Answer(status, body, guilds) == [status |-> status, body |-> body, guilds |-> guilds]
Answers ==
    {Answer(200, "json", l) : l \in GuildLists}
        \cup {Answer(429, b, <<>>) : b \in {"json", "malformed"}}
        \cup {Answer(c, "json", <<>>) : c \in {401, 403, 500}}

\* "if cached_guilds is not None: return cached_guilds" / "return []"
CacheOrEmpty(cached_guilds) == IF cached_guilds # Absent THEN cached_guilds[1] ELSE <<>>

Fetched(guilds, requests) == [guilds |-> guilds, requests |-> requests]

\* what follows the rate-limit block when it returned nothing: the tests on
\* the first response
AfterRateLimit(cached_guilds, response, requests) ==
    IF response.status \in {401, 403} THEN Fetched(<<>>, requests)
    ELSE Fetched(CacheOrEmpty(cached_guilds), requests)

\* Faulty variant: a 429 is retried for as long as the retry answers 429
get_user_guildsRetryAgain(cached_guilds, response, retry_response) ==
    IF response.status = 200 THEN Fetched(response.guilds, <<response>>)
    ELSE IF response.status = 429
    THEN IF retry_response.status = 200
         THEN Fetched(retry_response.guilds, <<response, retry_response>>)
         ELSE Fetched(CacheOrEmpty(cached_guilds), <<response, retry_response, retry_response>>)
    ELSE AfterRateLimit(cached_guilds, response, <<response>>)

\* Faulty variant: a second 429 gives the empty list whatever the cache
get_user_guildsNoFallback(cached_guilds, response, retry_response) ==
    IF response.status = 200 THEN Fetched(response.guilds, <<response>>)
    ELSE IF response.status = 429
    THEN IF response.body # "json" THEN Fetched(CacheOrEmpty(cached_guilds), <<response>>)
         ELSE IF retry_response.status = 200
         THEN Fetched(retry_response.guilds, <<response, retry_response>>)
         ELSE Fetched(<<>>, <<response, retry_response>>)
    ELSE AfterRateLimit(cached_guilds, response, <<response>>)

\* get_user_guilds: the list it returns and the requests it has issued;
\* retry_response is the answer to the retry, when there is one
get_user_guilds(cached_guilds, response, retry_response) ==
    IF response.status = 200 THEN Fetched(response.guilds, <<response>>)
    ELSE IF response.status = 429
    THEN IF response.body # "json"
         THEN \* response.json() or asyncio.sleep raises: the except clause
              Fetched(CacheOrEmpty(cached_guilds), <<response>>)
         ELSE IF retry_response.status = 200
         THEN Fetched(retry_response.guilds, <<response, retry_response>>)
         ELSE IF retry_response.status = 429
         THEN Fetched(CacheOrEmpty(cached_guilds), <<response, retry_response>>)
         ELSE AfterRateLimit(cached_guilds, response, <<response, retry_response>>)
    ELSE AfterRateLimit(cached_guilds, response, <<response>>)

HasManageGuild(guild) == (guild.permissions \div MANAGE_GUILD) % 2 = 1
filter_manageable_guilds(guilds) == SelectSeq(guilds, HasManageGuild)

\* Faulty variant: with no bot guild known nothing is kept
filter_bot_guildsStrict(guilds, bot_guild_ids) ==
    LET InBot(guild) == guild.id \in bot_guild_ids IN SelectSeq(guilds, InBot)

\* get_bot_guild_ids gives the guilds the bot is in; none known: all are kept
filter_bot_guilds(guilds, bot_guild_ids) ==
    IF bot_guild_ids = {} THEN guilds
    ELSE LET InBot(guild) == guild.id \in bot_guild_ids IN SelectSeq(guilds, InBot)

\* verify_guild_access on the list get_manageable_guilds_with_cache(use_cache=True,
\* filter_by_bot=True) returned: TRUE when it returns, FALSE when it raises
\* HTTPException(403)
verify_guild_access(guild_id, manageable_guilds) ==
    \E i \in DOMAIN manageable_guilds : manageable_guilds[i].id = guild_id

\* the clock of the web process stops here, seconds
MaxClock == 32

\* Faulty variant: a cache of exactly GUILD_CACHE_TTL seconds is still served
CacheValidInclusive(use_cache) ==
    /\ use_cache
    /\ session.cached_guilds # Absent
    /\ session.guild_cache_timestamp # Absent
    /\ webClock - session.guild_cache_timestamp[1] <= GUILD_CACHE_TTL

CacheValid(use_cache) ==
    /\ use_cache
    /\ session.cached_guilds # Absent
    /\ session.guild_cache_timestamp # Absent
    /\ webClock - session.guild_cache_timestamp[1] < GUILD_CACHE_TTL

get_manageable_guilds_with_cache(use_cache, filter_by_bot, response, retry_response) ==
    LET cached_guilds == session.cached_guilds
        fetch == get_user_guilds(cached_guilds, response, retry_response)
        after == IF Len(fetch.requests) > 1 THEN webClock + RetryAfter ELSE webClock
        guilds == IF CacheValid(use_cache) THEN cached_guilds[1]
                  ELSE filter_manageable_guilds(fetch.guilds)
    IN  /\ after <= MaxClock
        /\ IF CacheValid(use_cache)
           THEN UNCHANGED <<session, webClock>>
           ELSE /\ webClock' = after
                /\ session' = [cached_guilds |-> Some(guilds),
                               guild_cache_timestamp |-> Some(after)]
        /\ lastCall' =
              [called |-> TRUE, use_cache |-> use_cache, filter_by_bot |-> filter_by_bot,
               pre |-> session, at |-> webClock, bot |-> botGuilds,
               fetched |-> ~CacheValid(use_cache),
               requests |-> IF CacheValid(use_cache) THEN <<>> ELSE fetch.requests,
               fetched_guilds |-> IF CacheValid(use_cache) THEN <<>> ELSE fetch.guilds,
               result |-> IF filter_by_bot THEN filter_bot_guilds(guilds, botGuilds)
                          ELSE guilds]
        /\ UNCHANGED <<lifeVars, ensuring, second, reply, now, storeVars, botVars, loopVars, failStreak>>

\* the wall clock of the web process moves on
ClockAdvance(d) ==
    /\ webClock + d <= MaxClock
    /\ webClock' = webClock + d
    /\ UNCHANGED <<lifeVars, ensuring, second, reply, session, lastCall, now, storeVars, botVars, loopVars,
                   failStreak>>

\* The model deletes a row only while the loop holds no unhandled copy of it.
delete_schedule(guild_id, schedule_id) ==
    /\ schedule_id \in Ids(schedules)
    /\ schedule_id \notin Range(batch)
    /\ IF schedules[schedule_id].guild_id = guild_id
       THEN /\ schedules' = Delete(schedules, schedule_id)
            /\ failStreak' = IF failStreak.id = schedule_id THEN NoStreak ELSE failStreak
       ELSE UNCHANGED <<schedules, failStreak>>
    /\ UNCHANGED <<lifeVars, webVars, second, reply, now, templates, guild_config, botVars, loopVars>>

\* Faulty variant: the row is looked up by its id alone
DeleteRequestAnyGuild(guild_id, schedule_id) ==
    /\ schedule_id \notin Range(batch)
    /\ LET found == schedule_id \in Ids(schedules)
       IN  /\ schedules' = IF found THEN Delete(schedules, schedule_id) ELSE schedules
           /\ failStreak' =
                 IF found /\ failStreak.id = schedule_id THEN NoStreak ELSE failStreak
           /\ reply' = [handler |-> "delete_schedule", guild_id |-> guild_id,
                        schedule_id |-> schedule_id,
                        existed |-> schedule_id \in Ids(schedules), status |-> "ok"]
    /\ UNCHANGED <<lifeVars, webVars, second, now, templates, guild_config, botVars, loopVars>>

\* delete_schedule asked for any id, the id of no row and of a row of another
\* guild included, with its answer; verify_guild_access has admitted the user
\* to guild_id
DeleteRequest(guild_id, schedule_id) ==
    /\ schedule_id \notin Range(batch)
    /\ LET found == /\ schedule_id \in Ids(schedules)
                    /\ schedules[schedule_id].guild_id = guild_id
       IN  /\ schedules' = IF found THEN Delete(schedules, schedule_id) ELSE schedules
           /\ failStreak' =
                 IF found /\ failStreak.id = schedule_id THEN NoStreak ELSE failStreak
           /\ reply' = [handler |-> "delete_schedule", guild_id |-> guild_id,
                        schedule_id |-> schedule_id,
                        existed |-> schedule_id \in Ids(schedules), status |-> "ok"]
    /\ UNCHANGED <<lifeVars, webVars, second, now, templates, guild_config, botVars, loopVars>>

(***************************************************************************)
(* What the scheduler reads but does not own: the bot's guild and channel  *)
(* cache, the tz database, and a GuildConfig row of the shared store       *)
(* removed outside this program.                                           *)
(***************************************************************************)
GuildChange(g) ==
    /\ botGuilds' = IF g \in botGuilds THEN botGuilds \ {g} ELSE botGuilds \cup {g}
    /\ UNCHANGED <<lifeVars, webVars, second, reply, now, storeVars, guildChannels, tzdb, loopVars, failStreak>>

ChannelChange(g, c) ==
    /\ guildChannels' =
          [guildChannels EXCEPT ![g] = IF c \in @ THEN @ \ {c} ELSE @ \cup {c}]
    /\ UNCHANGED <<lifeVars, webVars, second, reply, now, storeVars, botGuilds, tzdb, loopVars, failStreak>>

TzdataChange(z) ==
    /\ z # "UTC"
    /\ tzdb' = IF z \in tzdb THEN tzdb \ {z} ELSE tzdb \cup {z}
    /\ UNCHANGED <<lifeVars, webVars, second, reply, now, storeVars, botGuilds, guildChannels, loopVars, failStreak>>

\* the time_local column (a free string) rewritten outside the program
TimeLocalRewritten(id) ==
    /\ id \in Ids(schedules)
    /\ WellFormed(schedules[id].time_local)
    /\ schedules' = [schedules EXCEPT ![id].time_local = Malformed]
    /\ UNCHANGED <<lifeVars, webVars, second, reply, now, templates, guild_config, botVars, loopVars, failStreak>>

\* a template row rewritten or removed in the shared store
TemplateRewritten(id, content) ==
    /\ id \in Ids(templates)
    /\ templates[id].content # content
    /\ templates' = [templates EXCEPT ![id].content = content]
    /\ UNCHANGED <<lifeVars, webVars, second, reply, now, schedules, guild_config, botVars, loopVars, failStreak>>

TemplateRowGone(id) ==
    /\ id \in Ids(templates)
    /\ templates' = Delete(templates, id)
    /\ UNCHANGED <<lifeVars, webVars, second, reply, now, schedules, guild_config, botVars, loopVars, failStreak>>

GuildConfigRowGone(g) ==
    /\ g \in DOMAIN guild_config
    /\ guild_config' = Delete(guild_config, g)
    /\ UNCHANGED <<lifeVars, webVars, second, reply, now, schedules, templates, botVars, loopVars, failStreak>>

(***************************************************************************)
(* scheduler_loop and process_due_schedules (src/web_scheduler.py)         *)
(***************************************************************************)
\* now_utc = datetime.utcnow(), the due query, schedules = result.scalars().all()
Poll ==
    /\ pc = "poll"
    /\ running /\ ~closed
    /\ ticks < MaxTicks
    /\ \E due \in DueOrders(now) :
          /\ batch' = due
          /\ tickBatch' = due
    /\ now_utc' = now
    /\ tickLog' = <<>>
    /\ ticks' = ticks + 1
    /\ pc' = "dispatch"
    /\ UNCHANGED <<lifeVars, webVars, second, reply, now, storeVars, botVars, failStreak>>

\* Faulty variant: the pass leaves its changes in the session, to be
\* committed once the whole batch is done
ProcessOneDeferred(ok) ==
    /\ pc = "dispatch"
    /\ batch # <<>>
    /\ LET id == Head(batch)
           res == ProcessSchedule(schedules[id], ok, now)
       IN  /\ schedules' = schedules
           /\ tickLog' = Append(tickLog, [id |-> id, pre |-> schedules[id], at |-> now,
                                          post |-> res.post, raised |-> res.raised,
                                          row |-> res.row, running |-> running])
           /\ failStreak' = failStreak
           /\ batch' = Tail(batch)
    /\ UNCHANGED <<lifeVars, webVars, second, reply, now, templates, guild_config, botVars, pc, now_utc, tickBatch, ticks>>

\* Faulty variant: the due query is run again after every pass, so the loop
\* goes on with whatever is due by then
ProcessOneRequery(ok) ==
    /\ pc = "dispatch"
    /\ batch # <<>>
    /\ LET id == Head(batch)
           res == ProcessSchedule(schedules[id], ok, now)
           after == [schedules EXCEPT ![id] = res.row]
           due == {i \in Ids(after) : IsDue(after[i], now)}
       IN  /\ schedules' = after
           /\ tickLog' = Append(tickLog, [id |-> id, pre |-> schedules[id], at |-> now,
                                          post |-> res.post, raised |-> res.raised,
                                          row |-> res.row, running |-> running])
           /\ failStreak' = failStreak
           /\ \E seq \in UNION {[1 .. n -> due] : n \in {Cardinality(due)}} :
                 /\ Range(seq) = due
                 /\ batch' = IF Len(tickLog) < MaxSchedules THEN seq ELSE <<>>
    /\ UNCHANGED <<lifeVars, webVars, second, reply, now, templates, guild_config, botVars, pc, now_utc, tickBatch, ticks>>

\* one pass of "for schedule in schedules"
ProcessOne(ok) ==
    /\ pc = "dispatch"
    /\ batch # <<>>
    /\ LET id == Head(batch)
           res == ProcessSchedule(schedules[id], ok, now)
       IN  /\ schedules' = [schedules EXCEPT ![id] = res.row]
           /\ tickLog' = Append(tickLog, [id |-> id, pre |-> schedules[id], at |-> now,
                                          post |-> res.post, raised |-> res.raised,
                                          row |-> res.row, running |-> running])
           /\ failStreak' =
                 IF res.post.cause = "send"
                 THEN [id |-> id,
                       count |-> IF failStreak.id = id THEN failStreak.count + 1 ELSE 1]
                 ELSE IF failStreak.id = id THEN NoStreak ELSE failStreak
           /\ batch' = IF res.escaped THEN <<>> ELSE Tail(batch)
    /\ UNCHANGED <<lifeVars, webVars, second, reply, now, templates, guild_config, botVars, pc, now_utc, tickBatch, ticks>>

\* Faulty variant: the dispatch is left running in the background and the
\* loop goes to its sleep at once.
SleepOverlapping ==
    /\ pc = "dispatch"
    /\ pc' = "poll"
    /\ now' = now + PollMinutes
    /\ tickLog' = <<>>
    /\ tickBatch' = <<>>
    /\ UNCHANGED <<lifeVars, webVars, second, reply, storeVars, botVars, now_utc, batch, ticks, failStreak>>

\* the for loop is over: asyncio.sleep(60), then the next iteration
Sleep ==
    /\ pc = "dispatch"
    /\ batch = <<>>
    /\ pc' = "poll"
    /\ now' = now + PollMinutes
    /\ tickLog' = <<>>
    /\ tickBatch' = <<>>
    /\ UNCHANGED <<lifeVars, webVars, second, reply, storeVars, botVars, now_utc, batch, ticks, failStreak>>

\* the process ends inside a batch: what the session had not committed is
\* lost, the store keeps what was committed
ProcessStops ==
    /\ pc = "dispatch"
    /\ pc' = "stopped"
    /\ batch' = <<>>
    /\ UNCHANGED <<lifeVars, webVars, second, reply, now, storeVars, botVars, now_utc, tickBatch, tickLog, ticks,
                   failStreak>>

\* The clock reaches a later instant with no poll in between: the instant a
\* row's next_run_utc names, or a day past it (the loop is late).
ElapseTargets ==
    UNION {{schedules[id].next_run_utc, schedules[id].next_run_utc + MinutesPerDay} :
              id \in Ids(schedules)}

Elapse(t) ==
    /\ pc # "dispatch"
    /\ t > now
    /\ t <= Horizon
    /\ now' = t
    /\ UNCHANGED <<lifeVars, webVars, second, reply, storeVars, botVars, loopVars, failStreak>>

(***************************************************************************)
(* Life cycle of the loop (start, stop, scheduler_loop) and of the bot.    *)
(***************************************************************************)
\* start(): sets the flag and creates the loop task.  The model calls it
\* while no loop task is alive.
start ==
    /\ pc \in {"unstarted", "done"}
    /\ running' = TRUE
    /\ pc' = "wait"
    /\ UNCHANGED <<webVars, second, reply, now, storeVars, botVars, now_utc, batch, tickBatch, tickLog, ticks,
                   failStreak, ready, closed>>

\* Faulty variant: stop() cancels the loop task where it stands.
stopCancelling ==
    /\ running' = FALSE
    /\ pc' = IF pc = "unstarted" THEN pc ELSE "done"
    /\ batch' = <<>>
    /\ UNCHANGED <<webVars, second, reply, now, storeVars, botVars, now_utc, tickBatch, tickLog, ticks,
                   failStreak, ready, closed>>

\* stop(): self.running = False
stop ==
    /\ running' = FALSE
    /\ UNCHANGED <<webVars, second, reply, now, storeVars, botVars, loopVars, failStreak, ready, closed>>

\* the messaging client becomes ready
BotReady ==
    /\ ~ready
    /\ ready' = TRUE
    /\ UNCHANGED <<webVars, second, reply, now, storeVars, botVars, loopVars, failStreak, running, closed>>

\* the messaging client is closed
BotClosed ==
    /\ ready /\ ~closed
    /\ closed' = TRUE
    /\ UNCHANGED <<webVars, second, reply, now, storeVars, botVars, loopVars, failStreak, running, ready>>

\* Faulty variant: the loop goes to its first iteration without waiting.
WaitSkipped ==
    /\ pc = "wait"
    /\ pc' = "poll"
    /\ UNCHANGED <<lifeVars, webVars, second, reply, now, storeVars, botVars, now_utc, batch, tickBatch, tickLog,
                   ticks, failStreak>>

\* await self.bot.wait_until_ready() returns
WaitUntilReady ==
    /\ pc = "wait"
    /\ ready
    /\ pc' = "poll"
    /\ UNCHANGED <<lifeVars, webVars, second, reply, now, storeVars, botVars, now_utc, batch, tickBatch, tickLog,
                   ticks, failStreak>>

\* the while condition is false: scheduler_loop returns
LoopExit ==
    /\ pc = "poll"
    /\ ~(running /\ ~closed)
    /\ pc' = "done"
    /\ UNCHANGED <<lifeVars, webVars, second, reply, now, storeVars, botVars, now_utc, batch, tickBatch, tickLog,
                   ticks, failStreak>>

\* Faulty variant: the exception of the poll leaves scheduler_loop, whose
\* task ends with it.
PollRaisesEndsLoop ==
    /\ pc = "poll"
    /\ running /\ ~closed
    /\ ticks < MaxTicks
    /\ batch' = <<>>
    /\ tickBatch' = <<>>
    /\ tickLog' = <<>>
    /\ now_utc' = now
    /\ ticks' = ticks + 1
    /\ pc' = "done"
    /\ UNCHANGED <<lifeVars, webVars, second, reply, now, storeVars, botVars, failStreak>>

\* process_due_schedules raises before its for loop (the session or the due
\* query fails); scheduler_loop logs it and goes on to its sleep
PollRaises ==
    /\ pc = "poll"
    /\ running /\ ~closed
    /\ ticks < MaxTicks
    /\ batch' = <<>>
    /\ tickBatch' = <<>>
    /\ tickLog' = <<>>
    /\ now_utc' = now
    /\ ticks' = ticks + 1
    /\ pc' = "dispatch"
    /\ UNCHANGED <<lifeVars, webVars, second, reply, now, storeVars, botVars, failStreak>>

\* a pass of the for loop is slow: the clock moves on, by more than the poll
\* interval, before the next schedule of the batch is handled (once in a tick)
SlowPass ==
    /\ pc = "dispatch"
    /\ batch # <<>>
    /\ now = now_utc
    /\ now + SlowMinutes <= Horizon
    /\ now' = now + SlowMinutes
    /\ UNCHANGED <<lifeVars, webVars, second, reply, storeVars, botVars, loopVars, failStreak>>

(***************************************************************************)
(* A second scheduler_loop task.  start() creates a task whenever it is    *)
(* called; called while a loop task is alive it leaves two tasks that      *)
(* share the running flag, the bot and the store.  Each poll opens its own *)
(* session, so the second task works on the rows as its own query loaded   *)
(* them.                                                                   *)
(***************************************************************************)
\* start() called while the loop task is alive
StartWhileAlive ==
    /\ pc \notin {"unstarted", "done"}
    /\ second.pc = "none"
    /\ running' = TRUE
    /\ second' = [second EXCEPT !.pc = "wait"]
    /\ UNCHANGED <<webVars, reply, now, storeVars, botVars, loopVars, failStreak, ready, closed>>

SecondWaitUntilReady ==
    /\ second.pc = "wait"
    /\ ready
    /\ second' = [second EXCEPT !.pc = "poll"]
    /\ UNCHANGED <<lifeVars, webVars, reply, now, storeVars, botVars, loopVars, failStreak>>

SecondLoopExit ==
    /\ second.pc = "poll"
    /\ ~(running /\ ~closed)
    /\ second' = [second EXCEPT !.pc = "done"]
    /\ UNCHANGED <<lifeVars, webVars, reply, now, storeVars, botVars, loopVars, failStreak>>

SecondPoll ==
    /\ second.pc = "poll"
    /\ running /\ ~closed
    /\ second.polls < MaxTicks
    /\ \E due \in DueOrders(now) :
          second' = [pc |-> "dispatch",
                     batch |-> [i \in DOMAIN due |-> [id |-> due[i], row |-> schedules[due[i]]]],
                     log |-> <<>>,
                     polls |-> second.polls + 1,
                     wake |-> 0]
    /\ UNCHANGED <<lifeVars, webVars, reply, now, storeVars, botVars, loopVars, failStreak>>

\* one pass of the second task's for loop, over the row as its poll loaded it;
\* the commit writes what the pass changed on it
SecondProcessOne(ok) ==
    /\ second.pc = "dispatch"
    /\ second.batch # <<>>
    /\ LET held == Head(second.batch)
           res == ProcessSchedule(held.row, ok, now)
       IN  /\ held.id \in Ids(schedules)
           /\ schedules' = [schedules EXCEPT ![held.id] = res.row]
           /\ second' = [second EXCEPT
                            !.batch = Tail(second.batch),
                            !.log = Append(second.log,
                                           [id |-> held.id, pre |-> held.row,
                                            stored |-> schedules[held.id], at |-> now,
                                            post |-> res.post, raised |-> res.raised])]
    /\ UNCHANGED <<lifeVars, webVars, reply, now, templates, guild_config, botVars, loopVars, failStreak>>

\* the second task's asyncio.sleep(60) begins
SecondSleep ==
    /\ second.pc = "dispatch"
    /\ second.batch = <<>>
    /\ second' = [second EXCEPT !.pc = "asleep", !.log = <<>>, !.wake = now + PollMinutes]
    /\ UNCHANGED <<lifeVars, webVars, reply, now, storeVars, botVars, loopVars, failStreak>>

\* and ends
SecondWake ==
    /\ second.pc = "asleep"
    /\ now >= second.wake
    /\ second' = [second EXCEPT !.pc = "poll", !.wake = 0]
    /\ UNCHANGED <<lifeVars, webVars, reply, now, storeVars, botVars, loopVars, failStreak>>

SecondTick ==
    \/ SecondWaitUntilReady
    \/ SecondLoopExit
    \/ SecondPoll
    \/ \E ok \in BOOLEAN : SecondProcessOne(ok)
    \/ SecondSleep
    \/ SecondWake

Tick ==
    \/ Poll
    \/ \E ok \in BOOLEAN : ProcessOne(ok)
    \/ Sleep
    \/ \E t \in ElapseTargets : Elapse(t)

(***************************************************************************)
(* Spec: firing and re-arming one schedule.  The guild stays resolvable;   *)
(* a schedule of either rule is created in either zone, the tz database    *)
(* changes, sends fail, the loop runs late.  What the loop does to a row   *)
(* depends on that row and on what it resolves at fire time, never on      *)
(* another row (SpecBatch checks this with several rows), so Spec and      *)
(* SpecResolve follow one enabled schedule at a time.                      *)
(***************************************************************************)
Next ==
    \/ \E f \in ConfigForms :
          update_guild_config("g1", f.timezone, f.role_id, f.default_channel_id)
    \/ \E r \in Rules, c \in {"111", "general"} :
          schedules = NoRows /\ create_schedule("g1", 1, <<"Sol">>, r, c)
    \/ \E id \in 1..MaxSchedules : delete_schedule("g1", id)
    \/ \E z \in Zones : TzdataChange(z)
    \/ Tick

Spec == Init /\ [][Next]_vars

(***************************************************************************)
(* SpecResolve: resolution at fire time.  One rule, zone UTC; the guild,   *)
(* the channel, the template and the GuildConfig row come and go.  A new   *)
(* schedule is created when no enabled one is left, so disabled rows stay  *)
(* in the table beside it.                                                 *)
(***************************************************************************)
NoneEnabled == \A id \in Ids(schedules) : ~schedules[id].enabled

UtcForms == {f \in ConfigForms : f.timezone = "UTC"}
AfternoonRule == CHOOSE r \in Rules : r.advance_minutes = 0

InitResolve == InitWith(UtcForms)

NextResolve ==
    \/ \E f \in ConfigForms : update_guild_config("g1", "UTC", f.role_id, f.default_channel_id)
    \/ create_template("g1", PresetContent, TRUE)
    \/ \E t \in 1..MaxTemplates, c \in {"", "111"} :
          NoneEnabled /\ create_schedule("g1", t, <<"Sol">>, AfternoonRule, c)
    \/ \E id \in 1..MaxSchedules : delete_schedule("g1", id)
    \/ GuildChange("g1")
    \/ ChannelChange("g1", "111")
    \/ GuildConfigRowGone("g1")
    \/ Tick

SpecResolve == InitResolve /\ [][NextResolve]_vars

(***************************************************************************)
(* SpecBatch: several schedules in one due batch, in both zones (the guild *)
(* moves from UTC to America/New_York between creations); the tz database  *)
(* changes, the time_local of schedule 1 is rewritten, sends fail.         *)
(***************************************************************************)
NextBatch ==
    \/ \E f \in ConfigForms \ UtcForms :
          update_guild_config("g1", f.timezone, f.role_id, f.default_channel_id)
    \/ create_schedule("g1", 1, <<"Sol">>, AfternoonRule, "111")
    \/ \E z \in Zones : TzdataChange(z)
    \/ TimeLocalRewritten(1)
    \/ Tick

SpecBatch == Init /\ [][NextBatch]_vars

(***************************************************************************)
(* SpecCrash: SpecBatch with the process ending at any point of a batch.   *)
(***************************************************************************)
NextCrash ==
    \/ NextBatch
    \/ ProcessStops

SpecCrash == Init /\ [][NextCrash]_vars

(***************************************************************************)
(* SpecDue: the due query.  Schedules of both rules, some disabled by a    *)
(* channel that went away, some not yet due, some due exactly now.         *)
(***************************************************************************)
NextDue ==
    \/ \E r \in Rules : create_schedule("g1", 1, <<"Sol">>, r, "111")
    \/ ChannelChange("g1", "111")
    \/ Tick

SpecDue == Init /\ [][NextDue]_vars

(***************************************************************************)
(* SpecLife: the life cycle.  The scheduler is constructed but not         *)
(* started and the bot is not ready; schedules (zone UTC) are created and  *)
(* become due at any point of it.                                          *)
(***************************************************************************)
InitLife ==
    /\ now = StartInstant
    /\ schedules = NoRows
    /\ templates = Insert(NoRows, 1, TemplateRow("g1", PresetContent, TRUE))
    /\ guild_config = Insert(NoRows, "g1", ConfigRow("UTC", "987", "111"))
    /\ botGuilds = Guilds
    /\ guildChannels = [g \in Guilds |-> Channels]
    /\ tzdb = Zones
    /\ pc = "unstarted"
    /\ now_utc = StartInstant
    /\ batch = <<>>
    /\ tickBatch = <<>>
    /\ tickLog = <<>>
    /\ failStreak = NoStreak
    /\ ticks = 0
    /\ running = FALSE
    /\ ready = FALSE
    /\ closed = FALSE
    /\ second = NoTask
    /\ reply = NoReply
    /\ InitWeb

NextLife ==
    \/ create_schedule("g1", 1, <<"Sol">>, AfternoonRule, "111")
    \/ start
    \/ stop
    \/ BotReady
    \/ BotClosed
    \/ WaitUntilReady
    \/ LoopExit
    \/ PollRaises
    \/ SlowPass
    \/ Tick

SpecLife == InitLife /\ [][NextLife]_vars

(***************************************************************************)
(* SpecCalc: the two calculators.  A schedule of any weekday, of several   *)
(* times of day and advances, is created in either zone at one of several  *)
(* reference instants (on the target's own day before, at and after the    *)
(* target time; just before and at the change to daylight time), then      *)
(* fired and re-armed.                                                     *)
(***************************************************************************)
CalcWeekdays == 0 .. 6
CalcTimes == {<<0, 10>>, <<2, 30>>, <<14, 30>>}
CalcAdvances == {0, 30}
CalcRules ==
    { [weekday |-> wd, time_local |-> hm, advance_minutes |-> adv] :
         wd \in CalcWeekdays, hm \in CalcTimes, adv \in CalcAdvances }

\* Monday 01:00, 12:00, 14:30, 15:00 and 19:30 UTC, Friday 10:00 UTC, and
\* the minute before and the minute of New York's change to daylight time
RefInstants ==
    {60, 720, 870, 900, 1170, 4 * MinutesPerDay + 600,
     ZoneTransition("America/New_York") - 1, ZoneTransition("America/New_York")}

InitCalc ==
    /\ now \in RefInstants
    /\ schedules = NoRows
    /\ templates = Insert(NoRows, 1, TemplateRow("g1", PresetContent, TRUE))
    /\ \E f \in ConfigForms :
          guild_config =
             Insert(NoRows, "g1", ConfigRow(f.timezone, f.role_id, f.default_channel_id))
    /\ botGuilds = Guilds
    /\ guildChannels = [g \in Guilds |-> Channels]
    /\ tzdb = Zones
    /\ pc = "poll"
    /\ now_utc = now
    /\ batch = <<>>
    /\ tickBatch = <<>>
    /\ tickLog = <<>>
    /\ failStreak = NoStreak
    /\ ticks = 0
    /\ running = TRUE
    /\ ready = TRUE
    /\ closed = FALSE
    /\ second = NoTask
    /\ reply = NoReply
    /\ InitWeb

NextCalc ==
    \/ \E r \in CalcRules :
          schedules = NoRows /\ create_schedule("g1", 1, <<"Sol">>, r, "111")
    \/ \E t \in RefInstants : Elapse(t)
    \/ Tick

SpecCalc == InitCalc /\ [][NextCalc]_vars

(***************************************************************************)
(* SpecRender: rendering.  The guild's template holds any content built    *)
(* from two pieces, or one of the contents that split a placeholder around *)
(* another; the guild's role is unset, numeric or a text; the schedule     *)
(* carries any of the system names.  The loop renders at fire time.        *)
(***************************************************************************)
Pieces ==
    {<<>>, <<"Defense">>, <<"<@&">>, <<">">>, <<"{role_">>, <<"id}">>,
     <<"{system_">>, <<"name}">>,
     RoleToken, Wrapper, SystemToken, <<"<@&", "987", ">">>}

SplitContents ==
    { <<"{role_">> \o RoleToken \o <<"id}">>,
      <<"{role_">> \o Wrapper \o <<"id}">>,
      <<"<@&", "{role_">> \o Wrapper \o <<"id}", ">">>,
      <<"<@&">> \o Wrapper \o RoleToken \o <<">">>,
      <<"{system_">> \o SystemToken \o <<"name}">>,
      <<"{system_">> \o RoleToken \o <<"name}">>,
      <<"{role_">> \o SystemToken \o <<"id}">>,
      <<"<@&">> \o SystemToken \o <<">">>,
      SystemToken \o Wrapper \o SystemToken \o RoleToken }

Contents == {a \o b : a \in Pieces, b \in Pieces} \cup SplitContents \cup {PresetContent}

RenderNames ==
    {<<"Sol">>, <<>>, RoleToken, Wrapper, SystemToken, <<"<@&", "Sol">>, <<"{role_">>,
     <<"{system_">>, <<"name}">>, <<"admins">>}

\* role_id values of the configuration form: empty, a role id, a role name
RenderRoles == {"", "987", "admins"}

InitRender ==
    /\ now = StartInstant
    /\ schedules = NoRows
    /\ \E c \in Contents : templates = Insert(NoRows, 1, TemplateRow("g1", c, TRUE))
    /\ \E r \in RenderRoles : guild_config = Insert(NoRows, "g1", ConfigRow("UTC", r, "111"))
    /\ botGuilds = Guilds
    /\ guildChannels = [g \in Guilds |-> Channels]
    /\ tzdb = Zones
    /\ pc = "poll"
    /\ now_utc = StartInstant
    /\ batch = <<>>
    /\ tickBatch = <<>>
    /\ tickLog = <<>>
    /\ failStreak = NoStreak
    /\ ticks = 0
    /\ running = TRUE
    /\ ready = TRUE
    /\ closed = FALSE
    /\ second = NoTask
    /\ reply = NoReply
    /\ InitWeb

NextRender ==
    \/ \E n \in RenderNames :
          schedules = NoRows /\ create_schedule("g1", 1, n, AfternoonRule, "")
    \/ Tick

SpecRender == InitRender /\ [][NextRender]_vars

(***************************************************************************)
(* SpecTemplates: the templates of a guild.  The guild has no template     *)
(* yet; its page is requested, possibly twice at once, templates are       *)
(* created with and without the default mark, a schedule fires.            *)
(***************************************************************************)
InitTemplates ==
    /\ now = StartInstant
    /\ schedules = NoRows
    /\ templates = NoRows
    /\ guild_config = Insert(NoRows, "g1", ConfigRow("UTC", "987", "111"))
    /\ botGuilds = Guilds
    /\ guildChannels = [g \in Guilds |-> Channels]
    /\ tzdb = Zones
    /\ pc = "poll"
    /\ now_utc = StartInstant
    /\ batch = <<>>
    /\ tickBatch = <<>>
    /\ tickLog = <<>>
    /\ failStreak = NoStreak
    /\ ticks = 0
    /\ running = TRUE
    /\ ready = TRUE
    /\ closed = FALSE
    /\ second = NoTask
    /\ reply = NoReply
    /\ InitWeb

NextTemplates ==
    \/ EnsureSelect("g1")
    \/ EnsureCommit("g1")
    \/ \E c \in {PresetContent, <<"Defense">>}, d \in BOOLEAN : create_template("g1", c, d)
    \/ schedules = NoRows /\ create_schedule("g1", 1, <<"Sol">>, AfternoonRule, "")
    \/ Tick

SpecTemplates == InitTemplates /\ [][NextTemplates]_vars

(***************************************************************************)
(* SpecFire: what a fire reads.  The guild has two channels; every         *)
(* schedule is created with no channel_id of its own; between the fires    *)
(* the guild's role and default channel are edited and the template is     *)
(* rewritten or removed.                                                   *)
(***************************************************************************)
FireChannels == {"111", "222"}
FireContents == {PresetContent, <<"Alert">> \o SystemToken}

InitFire ==
    /\ now = StartInstant
    /\ schedules = NoRows
    /\ templates = Insert(NoRows, 1, TemplateRow("g1", PresetContent, TRUE))
    /\ guild_config = Insert(NoRows, "g1", ConfigRow("UTC", "", "111"))
    /\ botGuilds = Guilds
    /\ guildChannels = [g \in Guilds |-> FireChannels]
    /\ tzdb = Zones
    /\ pc = "poll"
    /\ now_utc = StartInstant
    /\ batch = <<>>
    /\ tickBatch = <<>>
    /\ tickLog = <<>>
    /\ failStreak = NoStreak
    /\ ticks = 0
    /\ running = TRUE
    /\ ready = TRUE
    /\ closed = FALSE
    /\ second = NoTask
    /\ reply = NoReply
    /\ InitWeb

NextFire ==
    \/ \E r \in {"", "987"}, c \in FireChannels : update_guild_config("g1", "UTC", r, c)
    \/ schedules = NoRows /\ create_schedule("g1", 1, <<"Sol">>, AfternoonRule, "")
    \/ \E c \in FireContents : TemplateRewritten(1, c)
    \/ TemplateRowGone(1)
    \/ Tick

SpecFire == InitFire /\ [][NextFire]_vars

(***************************************************************************)
(* SpecGuilds: the guild list of a signed-in user.  The session starts     *)
(* with or without a cache and a timestamp; the list is asked for with and *)
(* without use_cache while the clock moves over the cache's life, Discord  *)
(* answers each request with any of the Answers, the bot joins and leaves  *)
(* the guild.                                                              *)
(***************************************************************************)
Sessions ==
    {FreshSession,
     [cached_guilds |-> Some(<<Owned>>), guild_cache_timestamp |-> Absent],
     [cached_guilds |-> Some(<<Owned>>), guild_cache_timestamp |-> Some(0)],
     [cached_guilds |-> Some(<<>>), guild_cache_timestamp |-> Some(0)]}

\* the answers the retry can get: there is a retry only after a 429 with a
\* JSON body
RetryAnswers(response) ==
    IF response.status = 429 /\ response.body = "json" THEN Answers ELSE {response}

InitGuilds ==
    /\ now = StartInstant
    /\ schedules = NoRows
    /\ templates = Insert(NoRows, 1, TemplateRow("g1", PresetContent, TRUE))
    /\ guild_config = Insert(NoRows, "g1", ConfigRow("UTC", "987", "111"))
    /\ botGuilds = Guilds
    /\ guildChannels = [g \in Guilds |-> Channels]
    /\ tzdb = Zones
    /\ pc = "poll"
    /\ now_utc = StartInstant
    /\ batch = <<>>
    /\ tickBatch = <<>>
    /\ tickLog = <<>>
    /\ failStreak = NoStreak
    /\ ticks = 0
    /\ running = TRUE
    /\ ready = TRUE
    /\ closed = FALSE
    /\ second = NoTask
    /\ reply = NoReply
    /\ ensuring = [g \in Guilds |-> 0]
    /\ session \in Sessions
    /\ webClock = 0
    /\ lastCall = NoCall

NextGuilds ==
    \/ \E u, f \in BOOLEAN, r1 \in Answers :
          \E r2 \in RetryAnswers(r1) : get_manageable_guilds_with_cache(u, f, r1, r2)
    \/ \E d \in {GUILD_CACHE_TTL - 1, GUILD_CACHE_TTL, GUILD_CACHE_TTL + 1} : ClockAdvance(d)
    \/ GuildChange("g1")

SpecGuilds == InitGuilds /\ [][NextGuilds]_vars

(***************************************************************************)
(* SpecAccess: the bot filter.  The user manages up to three guilds, the   *)
(* bot is in any of g1 and g3 or in none (its state file is empty or       *)
(* missing), the list is asked for with and without the filter.            *)
(***************************************************************************)
Other == UserGuild("g4", MANAGE_GUILD)

AccessAnswers ==
    {Answer(200, "json", l) : l \in {<<Managed, Member, Other, Owned>>, <<Owned, Member>>}}
        \cup {Answer(429, "json", <<>>), Answer(401, "json", <<>>)}

InitAccess ==
    /\ now = StartInstant
    /\ schedules = NoRows
    /\ templates = Insert(NoRows, 1, TemplateRow("g1", PresetContent, TRUE))
    /\ guild_config = Insert(NoRows, "g1", ConfigRow("UTC", "987", "111"))
    /\ botGuilds \in {{}, {"g1"}}
    /\ guildChannels = [g \in Guilds |-> Channels]
    /\ tzdb = Zones
    /\ pc = "poll"
    /\ now_utc = StartInstant
    /\ batch = <<>>
    /\ tickBatch = <<>>
    /\ tickLog = <<>>
    /\ failStreak = NoStreak
    /\ ticks = 0
    /\ running = TRUE
    /\ ready = TRUE
    /\ closed = FALSE
    /\ second = NoTask
    /\ reply = NoReply
    /\ ensuring = [g \in Guilds |-> 0]
    /\ session \in Sessions
    /\ webClock = 0
    /\ lastCall = NoCall

NextAccess ==
    \/ \E u, f \in BOOLEAN, r1 \in AccessAnswers :
          \E r2 \in (IF r1.status = 429 THEN AccessAnswers ELSE {r1}) :
              get_manageable_guilds_with_cache(u, f, r1, r2)
    \/ ClockAdvance(GUILD_CACHE_TTL)
    \/ \E g \in {"g1", "g3"} : GuildChange(g)

SpecAccess == InitAccess /\ [][NextAccess]_vars

(***************************************************************************)
(* SpecOverdue: schedules that are behind.  A Monday 14:30 schedule is     *)
(* created on Monday at 12:00 or at 14:15 UTC, with no advance, an advance *)
(* of half an hour or one of two weeks; the loop is down for weeks, sends  *)
(* fail, the tz database changes.                                          *)
(***************************************************************************)
MinutesPerWeek == 7 * MinutesPerDay

\* the loop is down for at most this many weeks in all
MaxWeeksDown == 3

OverdueAdvances == {0, 30, 2 * MinutesPerWeek}
OverdueRules ==
    { [weekday |-> 0, time_local |-> <<14, 30>>, advance_minutes |-> adv] :
         adv \in OverdueAdvances }

\* Monday 12:00, 14:00 and 14:15 UTC
CreationInstants == {StartInstant, StartInstant + 120, StartInstant + 135}

\* no poll for a number of weeks: the process is down, or start() has not
\* been called again
Downtime(weeks) ==
    /\ pc # "dispatch"
    /\ now + weeks * MinutesPerWeek <= StartInstant + MaxWeeksDown * MinutesPerWeek
    /\ now' = now + weeks * MinutesPerWeek
    /\ UNCHANGED <<lifeVars, webVars, second, reply, storeVars, botVars, loopVars, failStreak>>

InitOverdue ==
    /\ now \in CreationInstants
    /\ schedules = NoRows
    /\ templates = Insert(NoRows, 1, TemplateRow("g1", PresetContent, TRUE))
    /\ \E f \in ConfigForms :
          guild_config =
             Insert(NoRows, "g1", ConfigRow(f.timezone, f.role_id, f.default_channel_id))
    /\ botGuilds = Guilds
    /\ guildChannels = [g \in Guilds |-> Channels]
    /\ tzdb = Zones
    /\ pc = "poll"
    /\ now_utc = now
    /\ batch = <<>>
    /\ tickBatch = <<>>
    /\ tickLog = <<>>
    /\ failStreak = NoStreak
    /\ ticks = 0
    /\ running = TRUE
    /\ ready = TRUE
    /\ closed = FALSE
    /\ second = NoTask
    /\ reply = NoReply
    /\ InitWeb

NextOverdue ==
    \/ \E r \in OverdueRules :
          schedules = NoRows /\ create_schedule("g1", 1, <<"Sol">>, r, "111")
    \/ \E w \in 1 .. 2 : Downtime(w)
    \/ \E z \in Zones : TzdataChange(z)
    \/ Tick

SpecOverdue == InitOverdue /\ [][NextOverdue]_vars

(***************************************************************************)
(* SpecRestart: start() and stop() called at any point of the life of the  *)
(* loop, start() also while a loop task is alive (twice in a row, or after *)
(* a stop() that the sleeping loop has not seen yet).  The bot is ready;   *)
(* one schedule (zone UTC) is created and becomes due.                     *)
(***************************************************************************)
InitRestart ==
    /\ now = StartInstant
    /\ schedules = NoRows
    /\ templates = Insert(NoRows, 1, TemplateRow("g1", PresetContent, TRUE))
    /\ guild_config = Insert(NoRows, "g1", ConfigRow("UTC", "987", "111"))
    /\ botGuilds = Guilds
    /\ guildChannels = [g \in Guilds |-> Channels]
    /\ tzdb = Zones
    /\ pc = "unstarted"
    /\ now_utc = StartInstant
    /\ batch = <<>>
    /\ tickBatch = <<>>
    /\ tickLog = <<>>
    /\ failStreak = NoStreak
    /\ ticks = 0
    /\ running = FALSE
    /\ ready = TRUE
    /\ closed = FALSE
    /\ second = NoTask
    /\ reply = NoReply
    /\ InitWeb

NextRestart ==
    \/ schedules = NoRows /\ create_schedule("g1", 1, <<"Sol">>, AfternoonRule, "111")
    \/ start
    \/ StartWhileAlive
    \/ stop
    \/ WaitUntilReady
    \/ LoopExit
    \/ Tick
    \/ SecondTick

SpecRestart == InitRestart /\ [][NextRestart]_vars

(***************************************************************************)
(* SpecTenants: two guilds in one store.  Each has its configuration, its  *)
(* channel and one template; the signed-in user manages both.  Schedules   *)
(* are created for either guild with any template id the form can carry,   *)
(* and deleted through either guild's page, by any id.                     *)
(***************************************************************************)
Tenants == {"g1", "g2"}

InitTenants ==
    /\ now = StartInstant
    /\ schedules = NoRows
    /\ templates = Insert(Insert(NoRows, 1, TemplateRow("g1", PresetContent, TRUE)),
                          2, TemplateRow("g2", <<"Alert">> \o SystemToken, TRUE))
    /\ guild_config = Insert(Insert(NoRows, "g1", ConfigRow("UTC", "987", "111")),
                             "g2", ConfigRow("UTC", "", "222"))
    /\ botGuilds = Tenants
    /\ guildChannels = [g \in Tenants |-> IF g = "g1" THEN {"111"} ELSE {"222"}]
    /\ tzdb = Zones
    /\ pc = "poll"
    /\ now_utc = StartInstant
    /\ batch = <<>>
    /\ tickBatch = <<>>
    /\ tickLog = <<>>
    /\ failStreak = NoStreak
    /\ ticks = 0
    /\ running = TRUE
    /\ ready = TRUE
    /\ closed = FALSE
    /\ second = NoTask
    /\ reply = NoReply
    /\ InitWeb

NextTenants ==
    \/ \E g \in Tenants, t \in 1 .. MaxTemplates :
          create_schedule(g, t, <<"Sol">>, AfternoonRule, "")
    \/ Tick

SpecTenants == InitTenants /\ [][NextTenants]_vars

(***************************************************************************)
(* SpecDelete: the same two guilds; schedules are created for either guild *)
(* with its own template and deleted through either guild's page, by any   *)
(* id, while the loop delivers them.                                       *)
(***************************************************************************)
NextDelete ==
    \/ \E g \in Tenants :
          create_schedule(g, IF g = "g1" THEN 1 ELSE 2, <<"Sol">>, AfternoonRule, "")
    \/ \E g \in Tenants, id \in 1 .. MaxSchedules + 1 : DeleteRequest(g, id)
    \/ Poll
    \/ ProcessOne(TRUE)
    \/ Sleep
    \/ \E id \in Ids(schedules) : Elapse(schedules[id].next_run_utc)

SpecDelete == InitTenants /\ [][NextDelete]_vars

(***************************************************************************)
(* SpecDispatch: the store changes under a batch.  Schedules with an       *)
(* advance of half an hour before 14:30 and before 14:31 are created at    *)
(* any point, also at 14:00 while a batch is being dispatched (such a      *)
(* schedule is due from its creation on); a pass is slow, so that a        *)
(* schedule comes due during the dispatch.                                 *)
(***************************************************************************)
DispatchRules ==
    { [weekday |-> 0, time_local |-> hm, advance_minutes |-> 30] : hm \in {<<14, 30>>, <<14, 31>>} }

NextDispatch ==
    \/ \E r \in DispatchRules : create_schedule("g1", 1, <<"Sol">>, r, "111")
    \/ SlowPass
    \/ Tick

SpecDispatch == InitWith(UtcForms) /\ [][NextDispatch]_vars

(***************************************************************************)
(* Vocabulary of the properties.  A step of the loop that handles the row  *)
(* at the head of the batch: Old is the row before it, New the row after   *)
(* it, Outcome what post_reminder did.                                     *)
(***************************************************************************)
ProcessStep == pc = "dispatch" /\ batch # <<>> /\ Len(tickLog') = Len(tickLog) + 1
PollStep == pc = "poll" /\ pc' = "dispatch"
Old == schedules[Head(batch)]
New == schedules'[Head(batch)]
Outcome == tickLog'[Len(tickLog')]
SendCalled == Outcome.post.sent
SendReturned == Outcome.post.sent /\ ~Outcome.post.raised
SendRaised == Outcome.post.sent /\ Outcome.post.raised

\* the local reading of a row's next_run_utc, and of the target it announces
LocalFire(row) == NowIn(row.timezone, row.next_run_utc)
LocalTarget(row) == NowIn(row.timezone, row.next_run_utc + row.advance_minutes)
TargetMinutes(row) == row.time_local[1] * 60 + row.time_local[2]

\* the resolutions of post_reminder that the row fails in the current state
GuildUnresolved(row) == row.guild_id \notin botGuilds
ChannelUnset(row) == row.channel_id = None \/ row.channel_id = ""
ChannelUnresolved(row) == row.channel_id \notin guildChannels[row.guild_id]
TemplateMissing(row) == row.template_id \notin Ids(templates)
ConfigMissing(row) == row.guild_id \notin DOMAIN guild_config
Unresolvable(row) ==
    GuildUnresolved(row) \/ ChannelUnset(row) \/ ChannelUnresolved(row) \/ TemplateMissing(row)

(***************************************************************************)
(* C1.  When a due schedule's guild cannot be resolved, or its channel_id  *)
(* is unset, or its channel cannot be resolved, or its Template row does   *)
(* not exist, the tick sets the row's enabled flag to false and            *)
(* channel.send is not called for it.                                      *)
(***************************************************************************)
C1_UnresolvableIsDisabled ==
    [][ProcessStep /\ Unresolvable(Old) => ~New.enabled /\ ~SendCalled]_vars

(***************************************************************************)
(* C2.  When channel.send raises for a due schedule, the tick leaves the   *)
(* row as it was (enabled true, next_run_utc unchanged), so the row is     *)
(* still due; and as long as the row is not deleted, the next poll has it  *)
(* in its due set again, after any number of consecutive failures.         *)
(* failStreak names the row whose last pass was a failed send and counts   *)
(* its consecutive failed sends.                                           *)
(***************************************************************************)
C2_FailedSendIsRetried ==
    [][/\ ProcessStep /\ SendRaised =>
             /\ New = Old
             /\ New.enabled
             /\ IsDue(New, now')
             /\ failStreak'.id = Head(batch)
             /\ failStreak'.count >= 1
       /\ PollStep /\ failStreak.count > 0 =>
             /\ failStreak.id \in Ids(schedules)
             /\ failStreak.id \in Range(batch')]_vars

\* the same schedule is in the due set of a third poll after two failed sends
C2_Witness ==
    /\ pc = "dispatch"
    /\ failStreak.count >= 2
    /\ failStreak.id \in Range(batch)
    /\ schedules[failStreak.id].enabled

\* C3's re-arm instant: (local date of reference instant t + 7 days) at
\* time_local, minus advance_minutes, converted to UTC
ReArmed(row, t) ==
    AsUTC(row.timezone,
          (DateOf(NowIn(row.timezone, t)) + 7) * MinutesPerDay
             + TargetMinutes(row) - row.advance_minutes)

LogIds == [i \in DOMAIN tickLog |-> tickLog[i].id]

\* the pass over the head of the batch raised (in post_reminder or in
\* update_next_run)
PassRaised == Outcome.raised

(***************************************************************************)
(* C4.  Whatever passes of a due batch raise (failed send, unrecognised    *)
(* timezone), every other schedule of the batch is still processed in the  *)
(* same tick and ends it in the state it would have reached alone: the     *)
(* for loop goes on to the rest of the batch after every pass, a pass      *)
(* touches no row but its own, and what it does to its own row is what     *)
(* the row calls for (left as it was when its own pass raised, re-armed    *)
(* from the reference instant when it was delivered), whatever happened    *)
(* to the passes before it.                                                *)
(***************************************************************************)
C4_BatchIsolation ==
    [][/\ pc' = "dispatch" => LogIds' \o batch' = tickBatch'
       /\ ProcessStep =>
             /\ batch' = Tail(batch)
             /\ Outcome.id = Head(batch)
             /\ Outcome.pre = Old
             /\ \A id \in Ids(schedules) \ {Head(batch)} : schedules'[id] = schedules[id]
             /\ PassRaised => New = Old
             /\ SendReturned /\ ~PassRaised =>
                   New = [Old EXCEPT !.next_run_utc = ReArmed(Old, now)]]_vars

\* a tick has handled its whole batch: an earlier pass raised, and a later
\* pass delivered its message and re-armed its schedule
C4_Witness ==
    /\ pc = "dispatch"
    /\ batch = <<>>
    /\ LogIds = tickBatch
    /\ \E i, j \in DOMAIN tickLog :
          /\ i < j
          /\ tickLog[i].raised
          /\ tickLog[i].row = tickLog[i].pre
          /\ tickLog[j].post.sent /\ ~tickLog[j].raised
          /\ tickLog[j].row.next_run_utc = ReArmed(tickLog[j].pre, tickLog[j].at)
          /\ schedules[tickLog[j].id] = tickLog[j].row

(***************************************************************************)
(* C5.  Once the loop has set enabled to false on a schedule, the schedule *)
(* is in no later due set, whatever ticks and external actions follow,     *)
(* including those that restore the missing guild, channel or template:    *)
(* no step sets the enabled flag of a row back to true, and every          *)
(* schedule of a due batch is enabled.                                     *)
(***************************************************************************)
C5_DisabledIsTerminal ==
    [][/\ \A id \in Ids(schedules) \cap Ids(schedules') :
             ~schedules[id].enabled => ~schedules'[id].enabled
       /\ \A id \in Range(batch') :
             id \in Ids(schedules') /\ schedules'[id].enabled
       /\ PollStep =>
             \A id \in Ids(schedules) :
                 ~schedules[id].enabled => id \notin Range(batch')]_vars

\* a poll has left out a disabled schedule that is past its next_run_utc and
\* whose guild, channel, template and GuildConfig row are (again) in place
C5_Witness ==
    \E id \in Ids(schedules) :
        /\ ~schedules[id].enabled
        /\ pc = "dispatch"
        /\ ticks >= 2
        /\ schedules[id].next_run_utc <= now_utc
        /\ id \notin Range(tickBatch)
        /\ ~Unresolvable(schedules[id])
        /\ ~ConfigMissing(schedules[id])

(***************************************************************************)
(* C6.  The loop changes a schedule's next_run_utc only in a tick in which *)
(* the schedule's message was delivered; a tick that disables a schedule   *)
(* for a configuration error leaves its next_run_utc as it was.            *)
(***************************************************************************)
C6_NextRunChangesOnlyOnDelivery ==
    [][ProcessStep =>
          /\ New.next_run_utc # Old.next_run_utc => SendReturned
          /\ Old.enabled /\ ~New.enabled => New.next_run_utc = Old.next_run_utc]_vars

(***************************************************************************)
(* C7.  For every enabled schedule, after any sequence of ticks (late      *)
(* ticks and ticks after failed deliveries included), next_run_utc +       *)
(* advance_minutes read in the schedule's timezone falls on weekday        *)
(* rule.weekday at time_local.                                             *)
(***************************************************************************)
C7_CadencePreserved ==
    \A id \in Ids(schedules) :
        schedules[id].enabled =>
            /\ WeekdayOf(LocalTarget(schedules[id])) = schedules[id].weekday
            /\ TimeOfDay(LocalTarget(schedules[id])) = TargetMinutes(schedules[id])

\* advance_minutes rolls the fire time back onto the previous local day
RollsBack(row) == TargetMinutes(row) < row.advance_minutes

(***************************************************************************)
(* C8.  When advance_minutes rolls the fire time back onto the previous    *)
(* local day, a fire that happens on time is re-armed to exactly 7 local   *)
(* calendar days after the fire instant it served: same local time of day, *)
(* local date 7 days later.                                                *)
(***************************************************************************)
C8_RollbackReArmedSevenDaysOn ==
    [][ProcessStep /\ SendReturned /\ ~PassRaised /\ RollsBack(Old)
          /\ now = Old.next_run_utc =>
          /\ DateOf(LocalFire(New)) = DateOf(LocalFire(Old)) + 7
          /\ TimeOfDay(LocalFire(New)) = TimeOfDay(LocalFire(Old))]_vars

(***************************************************************************)
(* C9.  If no GuildConfig row exists for the schedule's guild at fire      *)
(* time, the schedule is disabled and no message is delivered for it.      *)
(***************************************************************************)
C9_NoConfigIsDisabled ==
    [][ProcessStep /\ ConfigMissing(Old) => ~New.enabled /\ ~SendCalled]_vars

(***************************************************************************)
(* C10.  If a due schedule's timezone name is unrecognised at fire time,   *)
(* the loop goes on and the schedule is disabled in that tick, so it is    *)
(* not processed again on later ticks.  Stated for the pass that gets as   *)
(* far as the timezone: the one whose message was sent.                    *)
(***************************************************************************)
C10_UnknownZoneIsDisabled ==
    [][ProcessStep /\ SendReturned /\ Old.timezone \notin tzdb =>
          /\ pc' = "dispatch"
          /\ batch' = Tail(batch)
          /\ ~New.enabled]_vars

(***************************************************************************)
(* C11.  Each poll selects exactly the schedules with enabled = true and   *)
(* next_run_utc <= now_utc (next_run_utc = now_utc included, disabled and  *)
(* future schedules excluded), each once, and dispatch handles them in     *)
(* non-decreasing order of next_run_utc.                                   *)
(***************************************************************************)
C11_DueSetAndOrder ==
    [][/\ PollStep =>
             /\ now_utc' = now
             /\ Range(batch') =
                   {id \in Ids(schedules) :
                       schedules[id].enabled = TRUE /\ schedules[id].next_run_utc <= now_utc'}
             /\ Len(batch') = Cardinality(Range(batch'))
       /\ ProcessStep =>
             /\ Outcome.id = Head(batch)
             /\ \A id \in Range(Tail(batch)) :
                   Old.next_run_utc <= schedules[id].next_run_utc
             /\ \A i \in DOMAIN tickLog :
                   tickLog[i].pre.next_run_utc <= Old.next_run_utc]_vars

\* a tick has handled two schedules, the earlier one first; the later one
\* was due exactly at the instant of the poll
C11_Witness ==
    /\ pc = "dispatch"
    /\ batch = <<>>
    /\ Len(tickLog) = 2
    /\ LogIds = tickBatch
    /\ tickLog[1].pre.next_run_utc < tickLog[2].pre.next_run_utc
    /\ tickLog[2].pre.next_run_utc = now_utc

(***************************************************************************)
(* C12.  The scheduler loop performs no poll of the schedule store and no  *)
(* delivery before the messaging client has reported ready: as long as the *)
(* bot is not ready the loop is not started or waits, no poll has been     *)
(* made, nothing is in dispatch and no schedule has been touched.          *)
(***************************************************************************)
C12_NoPollBeforeReady ==
    ~ready =>
        /\ pc \in {"unstarted", "wait"}
        /\ ticks = 0
        /\ batch = <<>> /\ tickLog = <<>>
        /\ \A id \in Ids(schedules) : schedules[id].enabled

\* the loop is started and waits for the bot while a schedule is already due
C12_Witness ==
    /\ pc = "wait"
    /\ running
    /\ ~ready
    /\ \E id \in Ids(schedules) :
          schedules[id].enabled /\ schedules[id].next_run_utc <= now

\* everything but the running flag
allButRunning ==
    <<now, schedules, templates, guild_config, botGuilds, guildChannels, tzdb, pc,
      now_utc, batch, tickBatch, tickLog, failStreak, ticks, ready, closed, ensuring,
      guildVars, second, reply>>

(***************************************************************************)
(* C13.  stop() only clears the running flag; a tick in progress when      *)
(* stop() is called is not interrupted (the loop leaves dispatch only with *)
(* its whole batch handled, and goes to the top of the loop); and once the *)
(* loop is at the top of an iteration with the flag false it starts no     *)
(* poll: its only step is to terminate, and a terminated loop stays so     *)
(* until start() is called.                                                *)
(***************************************************************************)
C13_StopIsCooperative ==
    [][/\ running /\ ~running' => UNCHANGED allButRunning
       /\ pc = "dispatch" /\ batch # <<>> =>
             pc' = "dispatch" /\ (batch' = batch \/ batch' = Tail(batch))
       /\ pc = "dispatch" /\ pc' # "dispatch" =>
             batch = <<>> /\ LogIds = tickBatch /\ pc' = "poll"
       /\ PollStep => running
       /\ pc = "poll" /\ ~running /\ pc' # "poll" => pc' = "done"
       /\ pc = "done" /\ pc' # "done" => pc' = "wait" /\ running']_vars

\* stop() was called during a tick: a pass made with the flag already false
\* has delivered its message, and the batch has been handled to its end
C13_Witness ==
    /\ pc = "dispatch"
    /\ batch = <<>>
    /\ ~running
    /\ LogIds = tickBatch
    /\ \E i \in DOMAIN tickLog :
          /\ ~tickLog[i].running
          /\ tickLog[i].post.sent /\ ~tickLog[i].raised
          /\ schedules[tickLog[i].id].next_run_utc > now

(***************************************************************************)
(* C14.  Within one scheduler loop a poll never starts while the previous  *)
(* tick's dispatch is in progress: away from dispatch no schedule of a     *)
(* batch is waiting, the sleep begins only when process_due_schedules is   *)
(* over (its whole batch handled, or the poll raised), after the last      *)
(* pass however late that ended, and lasts the whole poll interval; the    *)
(* next poll starts from the top of the loop with an empty batch.          *)
(***************************************************************************)
C14_TicksDoNotOverlap ==
    [][/\ pc' # "dispatch" => batch' = <<>>
       /\ pc = "dispatch" /\ pc' # "dispatch" =>
             /\ batch = <<>>
             /\ LogIds = tickBatch
             /\ \A i \in DOMAIN tickLog : now_utc <= tickLog[i].at /\ tickLog[i].at <= now
             /\ now' = now + PollMinutes
             /\ pc' = "poll"
       /\ PollStep =>
             /\ batch = <<>> /\ tickLog = <<>>
             /\ ticks > 0 => now >= now_utc + PollMinutes]_vars

\* a tick with a slow batch: its second pass ran later than a whole poll
\* interval after the poll, and the loop is still in that tick
C14_Witness ==
    /\ pc = "dispatch"
    /\ batch = <<>>
    /\ Len(tickLog) = 2
    /\ tickLog[2].at >= now_utc + SlowMinutes
    /\ tickLog[2].post.sent /\ ~tickLog[2].raised
    /\ ticks >= 1

\* a step of create_schedule into the empty schedule table: Created is the
\* row it stores, RefLocal the reference instant read in the row's zone
CreateStep == schedules = NoRows /\ schedules' # NoRows
Created == schedules'[1]
RefLocal == NowIn(Created.timezone, now)

\* C15's day offset for rule row at local reference w
DayOffset(row, w) ==
    LET d == (row.weekday - WeekdayOf(w)) % 7
    IN  IF d = 0 /\ TimeOfDay(w) >= TargetMinutes(row) THEN 7 ELSE d

\* the local fire instant C16 names: (reference local date + day_offset) at
\* time_local, minus advance_minutes
FirstLocalFire(row, w) ==
    (DateOf(w) + DayOffset(row, w)) * MinutesPerDay + TargetMinutes(row)
       - row.advance_minutes

(***************************************************************************)
(* C15.  create_schedule chooses day_offset = (weekday - reference local   *)
(* weekday) mod 7, except that when this is 0 and the reference local time *)
(* of day is at or after time_local it uses 7; the offset is in 0..7 and   *)
(* is 7 only in that same-day-passed case.  The stored next_run_utc is the *)
(* one of that offset, and the local date of the target is the reference   *)
(* local date plus it.                                                     *)
(***************************************************************************)
C15_DayOffset ==
    [][CreateStep =>
          LET off == DayOffset(Created, RefLocal)
              passed == /\ WeekdayOf(RefLocal) = Created.weekday
                        /\ TimeOfDay(RefLocal) >= TargetMinutes(Created)
          IN  /\ off \in 0 .. 7
              /\ off = 7 <=> passed
              /\ off = FirstDaysAhead(Created.weekday, Created.time_local, RefLocal)
              /\ Created.next_run_utc =
                    AsUTC(Created.timezone,
                          (DateOf(RefLocal) + off) * MinutesPerDay
                             + TargetMinutes(Created) - Created.advance_minutes)]_vars

\* created on Monday at 14:30 UTC exactly, a Monday 14:30 UTC schedule has its
\* first run a week later
C15_Witness ==
    /\ ticks = 0
    /\ now = 870
    /\ 1 \in Ids(schedules)
    /\ schedules[1].timezone = "UTC"
    /\ schedules[1].weekday = 0
    /\ schedules[1].time_local = <<14, 30>>
    /\ schedules[1].advance_minutes = 0
    /\ schedules[1].next_run_utc = 870 + 7 * MinutesPerDay

\* local wall-clock value x is one the zone's clocks show (the change to
\* daylight time does not skip it)
ExistsIn(z, x) == NowIn(z, AsUTC(z, x)) = x

(***************************************************************************)
(* C16 as stated.  For every weekday, time of day, advance and reference   *)
(* instant, the first next_run_utc stored by create_schedule is (reference *)
(* local date + day_offset) at time_local minus advance_minutes: read in   *)
(* the zone and with advance_minutes added back it falls on the rule's     *)
(* weekday at exactly time_local.                                          *)
(***************************************************************************)
C16_AsStated ==
    [][CreateStep =>
          /\ LocalFire(Created) = FirstLocalFire(Created, RefLocal)
          /\ WeekdayOf(LocalFire(Created) + Created.advance_minutes) = Created.weekday
          /\ TimeOfDay(LocalFire(Created) + Created.advance_minutes)
                = TargetMinutes(Created)]_vars

(***************************************************************************)
(* C16 amended.  The same, for a local fire instant (target minus advance) *)
(* that exists in the zone: one not skipped by a change to daylight time.  *)
(***************************************************************************)
C16_FirstRunOnTarget ==
    [][CreateStep /\ ExistsIn(Created.timezone, FirstLocalFire(Created, RefLocal)) =>
          /\ LocalFire(Created) = FirstLocalFire(Created, RefLocal)
          /\ WeekdayOf(LocalFire(Created) + Created.advance_minutes) = Created.weekday
          /\ TimeOfDay(LocalFire(Created) + Created.advance_minutes)
                = TargetMinutes(Created)]_vars

\* a New York schedule for 00:10 with an advance of 30 minutes, not yet fired:
\* its first run is at 23:40 local on the day before the rule's weekday
C16_Witness ==
    /\ ticks = 0
    /\ 1 \in Ids(schedules)
    /\ schedules[1].timezone = "America/New_York"
    /\ schedules[1].time_local = <<0, 10>>
    /\ schedules[1].advance_minutes = 30
    /\ TimeOfDay(LocalFire(schedules[1])) = 23 * 60 + 40
    /\ WeekdayOf(LocalFire(schedules[1])) = (schedules[1].weekday + 6) % 7
    /\ WeekdayOf(LocalFire(schedules[1]) + 30) = schedules[1].weekday

\* C17 for one conversion: reference instant t, local result x, stored UTC
\* instant u.  The offset used is the one in force at the result (u read in
\* the zone is x, for an x that exists); when t is before the change to
\* daylight time and x after it, it is the daylight offset and not the one
\* in force at t.
ConvertedAtResult(z, t, x, u) ==
    /\ ExistsIn(z, x) => u = x - (NowIn(z, u) - u)
    /\ t < ZoneTransition(z) /\ x >= ZoneTransition(z) + ZoneDst(z) =>
          /\ u = x - ZoneDst(z)
          /\ ZoneDst(z) # ZoneStd(z) => u # x - (NowIn(z, t) - t)

(***************************************************************************)
(* C17.  Both calculators convert to UTC with the zone offset in effect at *)
(* the resulting local fire instant, not at the reference instant: when    *)
(* the day_offset step of create_schedule or the 7-day step of             *)
(* update_next_run crosses a DST change, the stored UTC instant has the    *)
(* new offset.                                                             *)
(***************************************************************************)
C17_OffsetOfTheResult ==
    [][/\ CreateStep =>
             ConvertedAtResult(Created.timezone, now,
                               FirstLocalFire(Created, RefLocal), Created.next_run_utc)
       /\ ProcessStep /\ SendReturned /\ ~PassRaised =>
             ConvertedAtResult(Old.timezone, now,
                               (DateOf(NowIn(Old.timezone, now)) + 7) * MinutesPerDay
                                  + TargetMinutes(Old) - Old.advance_minutes,
                               New.next_run_utc)]_vars

\* reference Monday 2024-03-04 10:00 New York (15:00 UTC), rule Monday 02:30,
\* advance 0: re-armed to 2024-03-11T06:30Z
C17_Witness ==
    \E i \in DOMAIN tickLog :
        /\ tickLog[i].pre.timezone = "America/New_York"
        /\ tickLog[i].pre.weekday = 0
        /\ tickLog[i].pre.time_local = <<2, 30>>
        /\ tickLog[i].pre.advance_minutes = 0
        /\ tickLog[i].at = 15 * 60
        /\ tickLog[i].post.sent /\ ~tickLog[i].raised
        /\ tickLog[i].row.next_run_utc = 7 * MinutesPerDay + 6 * 60 + 30
        /\ schedules[tickLog[i].id].next_run_utc = 7 * MinutesPerDay + 6 * 60 + 30

(***************************************************************************)
(* Rendering.  A step of the loop that calls channel.send has rendered the *)
(* row's template: Content, the row's system_name and Role went in,        *)
(* Rendered came out.                                                      *)
(***************************************************************************)
Contains(text, pat) ==
    \E i \in 1..(Len(text) - Len(pat) + 1) : SubSeq(text, i, i + Len(pat) - 1) = pat

RenderStep == ProcessStep /\ SendCalled
Content == templates[Old.template_id].content
Role == IF Old.guild_id \in DOMAIN guild_config THEN guild_config[Old.guild_id].role_id ELSE None
Rendered == Outcome.post.message

\* every "<@&" of the text opens a whole "<@&{role_id}>", and every "{role_"
\* a whole "{role_id}": no such sequence is split around other text
Whole(text) ==
    \A i \in DOMAIN text :
        /\ text[i] = "<@&" => /\ i + 3 <= Len(text)
                              /\ SubSeq(text, i, i + 3) = Wrapper
        /\ text[i] = "{role_" => /\ i + 1 <= Len(text)
                                 /\ text[i + 1] = "id}"

\* the pieces of a text that belong to no mention and no role placeholder
IsWord(piece) == piece \notin {"<@&", ">", "{role_", "id}"}
Words(text) == SelectSeq(text, IsWord)

Count(text, pat) ==
    Cardinality({i \in 1..(Len(text) - Len(pat) + 1) : SubSeq(text, i, i + Len(pat) - 1) = pat})

\* the content after content.replace("{system_name}", system_name)
Substituted == Replace(Content, SystemToken, Old.system_name)

\* every "{system_" of the text opens a whole "{system_name}"
WholeSystem(text) ==
    \A i \in DOMAIN text :
        text[i] = "{system_" => /\ i + 1 <= Len(text)
                                /\ text[i + 1] = "name}"

NonNumeric(role_id) == role_id # None /\ role_id # "" /\ ~IsDigit(role_id)

(***************************************************************************)
(* C20.  With a role_id that is set and not numeric, every "{role_id}" is  *)
(* replaced by INVALID_ROLE_ID and the value itself is never inserted;     *)
(* rendering returns, so for a row that resolves channel.send is called    *)
(* with the rendered text, the row stays enabled, and when the send        *)
(* returns the row is re-armed as after any delivery.                      *)
(***************************************************************************)
C20_InvalidRoleStillDelivers ==
    [][ProcessStep /\ ~Unresolvable(Old) /\ IsDigit(Old.channel_id) /\ NonNumeric(Role) =>
          /\ SendCalled
          /\ Count(Rendered, <<"INVALID_ROLE_ID">>) = Count(Substituted, RoleToken)
          /\ ~Contains(Rendered, RoleToken)
          /\ Count(Rendered, <<Role>>) = Count(Substituted, <<Role>>)
          /\ New.enabled
          /\ SendReturned /\ Old.timezone \in tzdb /\ WellFormed(Old.time_local) =>
                New = [Old EXCEPT !.next_run_utc = ReArmed(Old, now)]]_vars

\* the preset for Sol with the role "admins": delivered, re-armed a week on
C20_Witness ==
    \E i \in DOMAIN tickLog :
        /\ tickLog[i].post.sent /\ ~tickLog[i].post.raised /\ ~tickLog[i].raised
        /\ templates[tickLog[i].pre.template_id].content = PresetContent
        /\ tickLog[i].pre.system_name = <<"Sol">>
        /\ guild_config["g1"].role_id = "admins"
        /\ tickLog[i].post.message = <<"Defense", "in", "Sol", "<@&", "INVALID_ROLE_ID", ">">>
        /\ schedules[tickLog[i].id].enabled
        /\ schedules[tickLog[i].id].next_run_utc = tickLog[i].pre.next_run_utc + 7 * MinutesPerDay

(***************************************************************************)
(* C21.  Every "{system_name}" of the content is replaced by the           *)
(* system_name taken literally: whatever the system_name holds, a          *)
(* "{role_id}", a "<@&{role_id}>" or a "{system_name}" included, the       *)
(* rendered text holds the value, unaltered, once for each place where the *)
(* token stood.  The role substitution runs over the inserted value too,   *)
(* which refutes it.                                                       *)
(***************************************************************************)
C21_SystemNameLiteral ==
    [][RenderStep /\ Old.system_name # <<>> =>
          Count(Rendered, Old.system_name) >= Count(Content, SystemToken)]_vars

(***************************************************************************)
(* C22.  Whatever create_template requests and ensure_guild_has_templates  *)
(* calls have run for a guild, in whatever interleaving, exactly one       *)
(* template of the guild is the default.  A first template created without *)
(* the default mark leaves none; two calls of ensure_guild_has_templates   *)
(* that both found the guild without templates leave two.                  *)
(***************************************************************************)
Defaults(guild_id) == {i \in TemplatesOf(guild_id) : templates[i].is_default}

C22_ExactlyOneDefault ==
    \A g \in Guilds : TemplatesOf(g) # {} => Cardinality(Defaults(g)) = 1

(***************************************************************************)
(* C23.  A due schedule that carries no channel_id of its own is           *)
(* delivered, at fire time, to the default channel of its guild's          *)
(* GuildConfig: when that channel resolves (and the guild and the template *)
(* do), channel.send is called and the schedule is not disabled.  The loop *)
(* never reads default_channel_id, which refutes it.                       *)
(***************************************************************************)
DefaultChannel(row) == guild_config[row.guild_id].default_channel_id

C23_DefaultChannelAtFire ==
    [][ProcessStep /\ ChannelUnset(Old) /\ ~GuildUnresolved(Old) /\ ~TemplateMissing(Old)
          /\ ~ConfigMissing(Old) /\ DefaultChannel(Old) \in guildChannels[Old.guild_id] =>
          SendCalled /\ New.enabled]_vars

(***************************************************************************)
(* C24.  Each delivery uses the template content and the GuildConfig       *)
(* values stored at the moment of the fire: the text sent is rendered from *)
(* the content and the role of that moment, and a schedule with no         *)
(* channel_id of its own is sent to the default channel of that moment; no *)
(* copy of them is kept on the schedule or in the loop.  Under SpecFire no *)
(* schedule has a channel_id of its own.  The channel_id of the row is the *)
(* default channel copied at creation, which refutes it.                   *)
(***************************************************************************)
\* the channel post_reminder resolves and sends to
Destination == Old.channel_id

C24_ResolvedAtFire ==
    [][RenderStep /\ ~ConfigMissing(Old) =>
          /\ Rendered = render_template(Content, Old.system_name, Role)
          /\ Destination = DefaultChannel(Old)]_vars

(***************************************************************************)
(* C25.  Each disablement and each re-arm is committed before the next     *)
(* schedule of the batch is processed: at every point of a batch, and      *)
(* after the process has ended inside one, the store holds for every       *)
(* schedule already handled the enabled and next_run_utc its pass gave it, *)
(* and every schedule of the batch not yet handled is as the poll found    *)
(* it, enabled and due; a pass changes no row that is still to come.       *)
(***************************************************************************)
Handled == {tickLog[i].id : i \in DOMAIN tickLog}
NotYetHandled == Range(tickBatch) \ Handled

C25_CommittedPerSchedule ==
    /\ [](pc \in {"dispatch", "stopped"} =>
            /\ \A i \in DOMAIN tickLog :
                  /\ schedules[tickLog[i].id].enabled = tickLog[i].row.enabled
                  /\ schedules[tickLog[i].id].next_run_utc = tickLog[i].row.next_run_utc
            /\ \A id \in NotYetHandled : IsDue(schedules[id], now_utc))
    /\ [][ProcessStep => \A id \in Range(Tail(batch)) : schedules'[id] = schedules[id]]_vars

\* the process ended inside a batch: one schedule delivered and re-armed,
\* another still due
C25_Witness ==
    /\ pc = "stopped"
    /\ \E i \in DOMAIN tickLog :
          /\ tickLog[i].post.sent /\ ~tickLog[i].raised
          /\ schedules[tickLog[i].id].next_run_utc = ReArmed(tickLog[i].pre, tickLog[i].at)
          /\ ~IsDue(schedules[tickLog[i].id], now_utc)
    /\ \E id \in NotYetHandled : IsDue(schedules[id], now_utc)

\* the next_run_utc values of a query result, in its order
Keys(seq) == [i \in DOMAIN seq |-> schedules[seq[i]].next_run_utc]

Statuses(requests) == [i \in DOMAIN requests |-> requests[i].status]
FetchCall == lastCall.called /\ lastCall.fetched

(***************************************************************************)
(* C27.  Whenever Discord answers a guild fetch with 401 or 403, on the    *)
(* first request or on the retry after a 429, get_user_guilds returns the  *)
(* empty list and never the cached guilds.  After a 429 the code tests the *)
(* status of the first response again, not of the retry, which refutes it. *)
(***************************************************************************)
C27_AuthFailureIsEmpty ==
    FetchCall /\ (\E i \in DOMAIN lastCall.requests : lastCall.requests[i].status \in {401, 403})
        => lastCall.fetched_guilds = <<>>

(***************************************************************************)
(* C28 as stated: on a 429 get_user_guilds waits and retries exactly once, *)
(* so it issues two requests, never more, and returns the retry's list     *)
(* when the retry answers 200.  A 429 whose body is not JSON is not        *)
(* retried.                                                                *)
(***************************************************************************)
C28_AsStated ==
    FetchCall =>
        /\ Len(lastCall.requests) <= 2
        /\ lastCall.requests[1].status = 429 =>
              /\ Len(lastCall.requests) = 2
              /\ lastCall.requests[2].status = 200 =>
                    lastCall.fetched_guilds = lastCall.requests[2].guilds

(***************************************************************************)
(* C28.  On a 429 with a JSON body get_user_guilds waits retry_after and   *)
(* retries exactly once: a call issues at most two requests, the second    *)
(* only after such a 429, and returns the retry's list when the retry      *)
(* answers 200.                                                            *)
(***************************************************************************)
C28_RetryOnce ==
    FetchCall =>
        /\ Len(lastCall.requests) \in {1, 2}
        /\ Len(lastCall.requests) = 2 <=>
              lastCall.requests[1].status = 429 /\ lastCall.requests[1].body = "json"
        /\ Len(lastCall.requests) = 2 =>
              /\ session.guild_cache_timestamp = Some(lastCall.at + RetryAfter)
              /\ lastCall.requests[2].status = 200 =>
                    lastCall.fetched_guilds = lastCall.requests[2].guilds

\* a 429, then a 200 with two guilds
C28_Witness ==
    /\ FetchCall
    /\ Statuses(lastCall.requests) = <<429, 200>>
    /\ lastCall.fetched_guilds = <<Owned, Member>>
    /\ lastCall.pre.cached_guilds = Some(<<>>)

(***************************************************************************)
(* C29.  When the first request and the retry both answer 429,             *)
(* get_user_guilds returns the cached list it was passed, and the empty    *)
(* list when it was passed none; so a user whose cache is stale gets the   *)
(* guilds of that cache from get_manageable_guilds_with_cache (those the   *)
(* bot is in, when filter_by_bot is set and the bot's guilds are known)    *)
(* and the cache is kept.                                                  *)
(***************************************************************************)
Elems(seq) == {seq[i] : i \in DOMAIN seq}

C29_RateLimitedFallsBackToCache ==
    FetchCall /\ Statuses(lastCall.requests) = <<429, 429>> =>
        IF lastCall.pre.cached_guilds = Absent
        THEN /\ lastCall.fetched_guilds = <<>>
             /\ lastCall.result = <<>>
        ELSE LET cache == lastCall.pre.cached_guilds[1] IN
             /\ lastCall.fetched_guilds = cache
             /\ session.cached_guilds = Some(cache)
             /\ Elems(lastCall.result) =
                   {g \in Elems(cache) :
                       lastCall.filter_by_bot /\ lastCall.bot # {} => g.id \in lastCall.bot}

\* a cache of 30 seconds, two 429: the user still has guild g1
C29_Witness ==
    /\ FetchCall
    /\ lastCall.use_cache /\ lastCall.filter_by_bot
    /\ Statuses(lastCall.requests) = <<429, 429>>
    /\ lastCall.pre = [cached_guilds |-> Some(<<Owned>>), guild_cache_timestamp |-> Some(0)]
    /\ lastCall.at = GUILD_CACHE_TTL
    /\ lastCall.bot = {"g1"}
    /\ lastCall.result = <<Owned>>

(***************************************************************************)
(* C30.  get_manageable_guilds_with_cache serves the cached list of the    *)
(* session, with no request to Discord and the cache and its timestamp     *)
(* left as they were, exactly when use_cache is set, a cache and a         *)
(* timestamp are present and the cache is less than GUILD_CACHE_TTL (30)   *)
(* seconds old; in every other case it fetches, keeps the guilds with the  *)
(* MANAGE_GUILD bit, and stores that list and the timestamp of the moment  *)
(* in the session.                                                         *)
(***************************************************************************)
Fresh(call) ==
    /\ call.use_cache
    /\ call.pre.cached_guilds # Absent
    /\ call.pre.guild_cache_timestamp # Absent
    /\ call.at - call.pre.guild_cache_timestamp[1] < GUILD_CACHE_TTL

\* the instant the call had reached when it stored the list
StoredAt(call) == IF Len(call.requests) = 2 THEN call.at + RetryAfter ELSE call.at

C30_CacheServedWhileFresh ==
    lastCall.called =>
        IF Fresh(lastCall)
        THEN /\ ~lastCall.fetched
             /\ lastCall.requests = <<>>
             /\ session = lastCall.pre
             /\ Elems(lastCall.result) \subseteq Elems(lastCall.pre.cached_guilds[1])
             /\ ~lastCall.filter_by_bot => lastCall.result = lastCall.pre.cached_guilds[1]
        ELSE /\ lastCall.fetched
             /\ Len(lastCall.requests) >= 1
             /\ session.cached_guilds =
                   Some(SelectSeq(lastCall.fetched_guilds, HasManageGuild))
             /\ session.guild_cache_timestamp = Some(StoredAt(lastCall))
             /\ ~lastCall.filter_by_bot => lastCall.result = session.cached_guilds[1]

\* a cache of exactly 30 seconds is not served: the list is fetched, the
\* guild without the MANAGE_GUILD bit is dropped, the timestamp is renewed
C30_Witness ==
    /\ lastCall.called /\ lastCall.use_cache
    /\ lastCall.pre = [cached_guilds |-> Some(<<>>), guild_cache_timestamp |-> Some(0)]
    /\ lastCall.at = GUILD_CACHE_TTL
    /\ Statuses(lastCall.requests) = <<200>>
    /\ lastCall.fetched_guilds = <<Owned, Member>>
    /\ session = [cached_guilds |-> Some(<<Owned>>), guild_cache_timestamp |-> Some(GUILD_CACHE_TTL)]

\* the list the last call had before its bot filter: the list the session now
\* caches (the cache it served, or the fetched list it stored)
BeforeBotFilter == session.cached_guilds[1]

\* the positions of that list whose guild the bot is in
InBotAt == {i \in DOMAIN BeforeBotFilter : BeforeBotFilter[i].id \in lastCall.bot}

UserGuildIds == {"g1", "g2", "g3", "g4"}

(***************************************************************************)
(* C31.  filter_bot_guilds returns, in input order, exactly the guilds     *)
(* whose id is in the bot's guild-id set when that set is non-empty (the   *)
(* k-th guild of the result is the k-th guild of the input the bot is in), *)
(* and returns all input guilds unfiltered when the set is empty or        *)
(* unavailable, so that verify_guild_access then admits any guild the user *)
(* can manage; with a non-empty set it admits the guilds of the list the   *)
(* bot is in and no other.                                                 *)
(***************************************************************************)
C31_BotFilter ==
    lastCall.called /\ lastCall.filter_by_bot =>
        IF lastCall.bot # {}
        THEN /\ Len(lastCall.result) = Cardinality(InBotAt)
             /\ \A k \in DOMAIN lastCall.result :
                    \E i \in InBotAt :
                        /\ Cardinality({j \in InBotAt : j < i}) = k - 1
                        /\ lastCall.result[k] = BeforeBotFilter[i]
             /\ \A g \in UserGuildIds :
                    verify_guild_access(g, lastCall.result) <=>
                        \E i \in InBotAt : BeforeBotFilter[i].id = g
        ELSE /\ lastCall.result = BeforeBotFilter
             /\ \A i \in DOMAIN BeforeBotFilter :
                    verify_guild_access(BeforeBotFilter[i].id, lastCall.result)

\* of three manageable guilds the two the bot is in were returned, in the
\* order of the list, and the third was left out
C31_Witness ==
    /\ lastCall.called /\ lastCall.filter_by_bot
    /\ lastCall.bot = {"g1", "g3"}
    /\ BeforeBotFilter = <<Managed, Other, Owned>>
    /\ lastCall.result = <<Managed, Owned>>
    /\ ~verify_guild_access("g4", lastCall.result)

(***************************************************************************)
(* C32.  A message successfully delivered for a schedule in one tick is    *)
(* not delivered again by the immediately following tick: every pass in    *)
(* which channel.send returned leaves the row, in the same tick, with a    *)
(* committed next_run_utc strictly later than that tick's now (so that the *)
(* row is not due), whatever the schedule's timezone, time_local and       *)
(* advance_minutes values are.                                             *)
(***************************************************************************)
C32_NotDeliveredTwice ==
    [][ProcessStep /\ SendReturned =>
          /\ New.next_run_utc > now_utc
          /\ ~IsDue(New, now')]_vars

\* a pass of the second loop task has delivered the message of a schedule
\* for a next_run_utc the store no longer held: the first task had delivered
\* it and re-armed the row
DeliveredAgain(entry) ==
    /\ entry.post.sent /\ ~entry.post.raised
    /\ entry.stored.next_run_utc > entry.pre.next_run_utc

(***************************************************************************)
(* C33.  For one WebScheduler, after any sequence of start() and stop()    *)
(* calls at most one scheduler_loop task is polling: calling start()       *)
(* twice, or stop() followed by start() while the previous loop is still   *)
(* in its 60-second sleep, never leaves two loops delivering the same due  *)
(* schedules.  Checked as: no second loop task is ever past its wait, and  *)
(* none delivers a schedule the first has already delivered and re-armed.  *)
(***************************************************************************)
C33_OneLoop ==
    /\ second.pc \in {"none", "wait"}
    /\ \A i \in DOMAIN second.log : ~DeliveredAgain(second.log[i])

\* the same with the first half left out: the state TLC then shows is one of
\* a message delivered by both loop tasks
C33_NoDoubleDelivery ==
    \A i \in DOMAIN second.log : ~DeliveredAgain(second.log[i])

(***************************************************************************)
(* C34 as stated.  The next_run_utc stored by create_schedule is never     *)
(* earlier than the creation instant, for every weekday, time_local and    *)
(* advance_minutes >= 0, including a creation on the rule's weekday at a   *)
(* time between (time_local - advance_minutes) and time_local; a new       *)
(* schedule is therefore not due on the first poll after its creation.     *)
(***************************************************************************)
C34_AsStated ==
    [][CreateStep => Created.next_run_utc >= now /\ ~IsDue(Created, now)]_vars

\* the creation falls after the first fire time of the rule: the first
\* occurrence less advance_minutes, read in the schedule's zone
CreatedAfterFire == FirstLocalFire(Created, RefLocal) < RefLocal

(***************************************************************************)
(* C34 amended.  The next_run_utc stored by create_schedule is never       *)
(* earlier than the creation instant, for every weekday, time_local and    *)
(* advance_minutes >= 0, except for a creation later than (first           *)
(* occurrence - advance_minutes), as one on the rule's weekday between     *)
(* (time_local - advance_minutes) and time_local: the stored next_run_utc  *)
(* is then earlier than the creation instant and the new schedule is due   *)
(* on the first poll after its creation.  A schedule whose next_run_utc is *)
(* later than the creation instant is not due at that instant.             *)
(***************************************************************************)
C34_FirstRunPastOnlyInsideAdvance ==
    [][CreateStep =>
          /\ Created.next_run_utc < now <=> CreatedAfterFire
          /\ CreatedAfterFire => IsDue(Created, now)
          /\ Created.next_run_utc > now => ~IsDue(Created, now)]_vars

\* a Monday 14:30 schedule with an advance of half an hour, created on Monday
\* at 14:15, was stored with next_run_utc 14:00 and is in the due set of the
\* first poll; its target is still ahead
C34_Witness ==
    /\ pc = "dispatch"
    /\ ticks = 1
    /\ now = StartInstant + 135
    /\ 1 \in Range(tickBatch)
    /\ 1 \in Ids(schedules)
    /\ schedules[1].advance_minutes = 30
    /\ schedules[1].timezone = "UTC"
    /\ schedules[1].next_run_utc = StartInstant + 120
    /\ schedules[1].next_run_utc + schedules[1].advance_minutes > now

\* the template a schedule row names is a row of the template table, of the
\* schedule's own guild
OwnTemplate(row) ==
    /\ row.template_id \in Ids(templates)
    /\ templates[row.template_id].guild_id = row.guild_id

(***************************************************************************)
(* C35.  Every schedule stored by create_schedule references a Template    *)
(* whose guild_id equals the schedule's guild_id: no sequence of           *)
(* create_schedule requests lets a schedule of guild A deliver the content *)
(* of a template owned by guild B.                                         *)
(***************************************************************************)
C35_TemplateOfOwnGuild ==
    /\ \A id \in Ids(schedules) : OwnTemplate(schedules[id])
    /\ \A i \in DOMAIN tickLog : tickLog[i].post.sent => OwnTemplate(tickLog[i].pre)

\* the same with the stored rows left out: the state TLC then shows is one of
\* a delivery into guild A of the content of guild B's template
C35_NoForeignContent ==
    \A i \in DOMAIN tickLog : tickLog[i].post.sent => OwnTemplate(tickLog[i].pre)

\* a step of delete_schedule that changed the store or the recorded answer
DeleteStep ==
    /\ reply'.handler = "delete_schedule"
    /\ reply' # reply \/ schedules' # schedules
    /\ UNCHANGED <<now, loopVars>>
    /\ Ids(schedules') \subseteq Ids(schedules)

\* the row the request names, of the guild it names
Requested ==
    /\ reply'.schedule_id \in Ids(schedules)
    /\ schedules[reply'.schedule_id].guild_id = reply'.guild_id

(***************************************************************************)
(* C36.  delete_schedule called for guild G removes a schedule only if its *)
(* id matches and its guild_id is G (and then removes that row and no      *)
(* other); when the id belongs to another guild or does not exist, no      *)
(* schedule is deleted, the store is unchanged and the call still answers  *)
(* ok.                                                                     *)
(***************************************************************************)
C36_DeleteOnlyOwn ==
    [][DeleteStep =>
          /\ reply'.status = "ok"
          /\ UNCHANGED <<templates, guild_config>>
          /\ IF Requested
             THEN /\ Ids(schedules') = Ids(schedules) \ {reply'.schedule_id}
                  /\ \A id \in Ids(schedules') : schedules'[id] = schedules[id]
             ELSE schedules' = schedules]_vars

\* guild g2's page was asked to delete a schedule of guild g1: the answer was
\* ok and the schedule is still there, enabled
C36_Witness ==
    /\ reply.handler = "delete_schedule"
    /\ reply.status = "ok"
    /\ reply.guild_id = "g2"
    /\ reply.existed
    /\ reply.schedule_id \in Ids(schedules)
    /\ schedules[reply.schedule_id].guild_id = "g1"
    /\ schedules[reply.schedule_id].enabled

\* the row at the head of the batch is behind by a week or more
OverdueByWeeks == now >= Old.next_run_utc + MinutesPerWeek

(***************************************************************************)
(* C37.  A schedule overdue by any number of weeks (loop stopped or        *)
(* deliveries failing for several weeks) is delivered once, not once per   *)
(* missed occurrence: after that single successful fire its next_run_utc   *)
(* lies in the future and it leaves the due set.                           *)
(***************************************************************************)
C37_OverdueDeliveredOnce ==
    [][ProcessStep /\ SendReturned /\ OverdueByWeeks =>
          /\ New.next_run_utc > now
          /\ ~IsDue(New, now')]_vars

\* What does hold: when update_next_run returns and advance_minutes is no
\* more than six days, the fire of a schedule that is weeks behind re-arms
\* it into the coming eight days, whatever the number of weeks missed.
C37_CaughtUpWhenReArmed ==
    [][ProcessStep /\ SendReturned /\ ~PassRaised /\ OverdueByWeeks
          /\ Old.advance_minutes <= 6 * MinutesPerDay =>
          /\ New.next_run_utc > now
          /\ New.next_run_utc <= now + MinutesPerWeek + MinutesPerDay
          /\ ~IsDue(New, now')]_vars

\* a schedule two weeks behind, with sends that failed on the way, has been
\* delivered and re-armed into the future
C37_CaughtUp ==
    \E i \in DOMAIN tickLog :
        /\ tickLog[i].post.sent /\ ~tickLog[i].post.raised /\ ~tickLog[i].raised
        /\ tickLog[i].pre.advance_minutes = 30
        /\ tickLog[i].at >= tickLog[i].pre.next_run_utc + 2 * MinutesPerWeek
        /\ tickLog[i].row.next_run_utc > tickLog[i].at

(***************************************************************************)
(* C38.  Within one tick each schedule of the due set is handed to         *)
(* post_reminder at most once, so a tick makes at most one delivery        *)
(* attempt per schedule; a schedule that becomes due or is created while   *)
(* the batch is being dispatched is first handled by a later tick: the     *)
(* passes of a tick are over distinct schedules, each of them a row that   *)
(* the poll of the tick found due at its now_utc, and nothing joins the    *)
(* batch after the poll.                                                   *)
(***************************************************************************)
C38_OncePerTick ==
    /\ [](\A i, j \in DOMAIN tickLog : i # j => tickLog[i].id # tickLog[j].id)
    /\ [][/\ ProcessStep =>
                /\ Outcome.id = Head(batch)
                /\ Outcome.id \in Range(tickBatch)
                /\ Outcome.pre.next_run_utc <= now_utc
                /\ \A i \in DOMAIN tickLog : tickLog[i].id # Outcome.id
          /\ pc = "dispatch" /\ pc' = "dispatch" =>
                /\ tickBatch' = tickBatch
                /\ batch' = batch \/ batch' = Tail(batch)]_vars

\* a tick has handled its whole batch and delivered; a schedule created
\* during the dispatch, due at the instant of the poll, was left for a
\* later tick
C38_Witness ==
    /\ pc = "dispatch"
    /\ batch = <<>>
    /\ LogIds = tickBatch
    /\ \E i \in DOMAIN tickLog : tickLog[i].post.sent /\ ~tickLog[i].raised
    /\ \E id \in Ids(schedules) \ Range(tickBatch) :
          /\ schedules[id].enabled
          /\ schedules[id].next_run_utc <= now_utc

\* the same for a schedule that came due during the dispatch, after the poll
C38_CameDueInDispatch ==
    /\ pc = "dispatch"
    /\ batch = <<>>
    /\ LogIds = tickBatch
    /\ \E i \in DOMAIN tickLog : tickLog[i].post.sent /\ ~tickLog[i].raised
    /\ \E id \in Ids(schedules) \ Range(tickBatch) :
          /\ schedules[id].enabled
          /\ schedules[id].next_run_utc > now_utc
          /\ schedules[id].next_run_utc <= now


(***************************************************************************)
(* C39: an exception of the poll itself is caught by scheduler_loop.       *)
(***************************************************************************)
\* the poll of this step raised although a schedule was due: the loop is at
\* its sleep with nothing selected
PollRaised ==
    /\ pc = "poll"
    /\ pc' = "dispatch"
    /\ tickBatch' = <<>>
    /\ DueIds(now) # {}

\* C39: an exception raised by the poll itself (opening the session or
\* running the due query) is caught by scheduler_loop: nothing is stored or
\* sent, the loop goes to its sleep, and from the sleep it goes to the next
\* poll one interval later; the loop ends only from the test of its while
\* condition, when running is false or the bot is closed.
C39_PollErrorCaught ==
    /\ [][PollRaised =>
              /\ batch' = <<>>
              /\ UNCHANGED <<storeVars, botVars, lifeVars, failStreak>>]_vars
    /\ [][pc = "dispatch" /\ batch = <<>> /\ pc' # pc =>
              /\ pc' = "poll"
              /\ now' = now + PollMinutes]_vars
    /\ [][pc' = "done" /\ pc # "done" =>
              /\ pc = "poll"
              /\ ~running \/ closed]_vars

\* a poll has raised with a schedule due and the loop, still to run, is at
\* its sleep: the schedule waits for the next poll
C39_Witness ==
    /\ pc = "dispatch"
    /\ batch = <<>>
    /\ tickBatch = <<>>
    /\ tickLog = <<>>
    /\ ticks >= 2
    /\ running /\ ~closed
    /\ DueIds(now_utc) # {}


(***************************************************************************)
(* C40: what a refresh that got no 200 leaves in the session.              *)
(***************************************************************************)
\* the list the last call stored came from a 200 answer
StoredFromSuccess ==
    /\ lastCall.requests # <<>>
    /\ lastCall.requests[Len(lastCall.requests)].status = 200

\* C40: get_manageable_guilds_with_cache advances guild_cache_timestamp only
\* when the list it stores comes from a 200 answer: after a refresh that
\* fell back to the cached list or got the empty list on an error the
\* timestamp is the one the session had, and a non-empty cached list has not
\* been replaced by the empty one.
C40_FreshOnlyOnSuccess ==
    FetchCall /\ ~StoredFromSuccess =>
        /\ session.guild_cache_timestamp = lastCall.pre.guild_cache_timestamp
        /\ lastCall.pre.cached_guilds # Absent /\ lastCall.pre.cached_guilds # Some(<<>>) =>
              session.cached_guilds # Some(<<>>)

\* a cache of 30 seconds and a 500: the old list is stored again and is
\* fresh for another 30 seconds
C40_StaleMarkedFresh ==
    /\ FetchCall
    /\ Statuses(lastCall.requests) = <<500>>
    /\ lastCall.pre = [cached_guilds |-> Some(<<Owned>>), guild_cache_timestamp |-> Some(0)]
    /\ lastCall.at = GUILD_CACHE_TTL
    /\ session = [cached_guilds |-> Some(<<Owned>>),
                  guild_cache_timestamp |-> Some(GUILD_CACHE_TTL)]

\* a cache of 30 seconds and a 401: the non-empty list is replaced by the
\* empty one, fresh for 30 seconds
C40_CacheEmptied ==
    /\ FetchCall
    /\ Statuses(lastCall.requests) = <<401>>
    /\ lastCall.pre = [cached_guilds |-> Some(<<Owned>>), guild_cache_timestamp |-> Some(0)]
    /\ lastCall.at = GUILD_CACHE_TTL
    /\ session = [cached_guilds |-> Some(<<>>),
                  guild_cache_timestamp |-> Some(GUILD_CACHE_TTL)]

====
